---- MODULE Spec2Model ----
(***************************************************************************)
(* RSA engine of src/src/utils/rsa.ts: modular arithmetic, Miller-Rabin,   *)
(* extended Euclid, PKCS#1 v1.5 style padding, the byte codecs and the     *)
(* encrypt / decrypt pipelines with their step traces.                     *)
(*                                                                         *)
(* Numbers.  The source computes on JavaScript bigint.  Values that stay   *)
(* below 2^31 in the checked range (modInverse and isProbablyPrime on      *)
(* small arguments) are TLA+ integers.  The pipelines need moduli of at    *)
(* least 12 bytes (n >= 2^88), so there a bigint is the sequence of its    *)
(* base-256 digits, most significant first, without leading zero digits    *)
(* (zero is << >>), and the operators Big* give +, -, *, %, <, >> on that  *)
(* representation; modPow works on it, modPowInt converts small numbers.   *)
(* A Uint8Array is a sequence of 0..255, a string the sequence of its      *)
(* character codes.                                                        *)
(***************************************************************************)
EXTENDS Integers, Sequences, FiniteSets, TLC

(***************************************************************************)
(* bigint arithmetic on digit sequences                                    *)
(***************************************************************************)
Radix == 256

Max2(a, b) == IF a >= b THEN a ELSE b

Min2(a, b) == IF a <= b THEN a ELSE b

\* index of the first non-zero digit at or after i, Len(s) + 1 if none
RECURSIVE FirstNonZero(_, _)
FirstNonZero(s, i) ==
  IF i > Len(s) \/ s[i] # 0 THEN i ELSE FirstNonZero(s, i + 1)

\* the digit sequence without its leading zero digits
Trim(s) ==
  IF s = << >> \/ s[1] # 0 THEN s ELSE SubSeq(s, FirstNonZero(s, 1), Len(s))

\* the bigint of a small natural number
RECURSIVE FromInt(_)
FromInt(v) == IF v = 0 THEN << >> ELSE Append(FromInt(v \div Radix), v % Radix)

\* the natural number of a bigint known to be below 2^31
RECURSIVE ToInt(_)
ToInt(s) ==
  IF s = << >> THEN 0 ELSE ToInt(SubSeq(s, 1, Len(s) - 1)) * Radix + s[Len(s)]

\* a < b
BigLess(a, b) ==
  \/ Len(a) < Len(b)
  \/ /\ Len(a) = Len(b)
     /\ \E i \in 1..Len(a) :
          /\ a[i] < b[i]
          /\ \A j \in 1..(i - 1) : a[j] = b[j]

\* the carries run from the right through the columns: run[<<lo, hi, c>>] is
\* the digits of the columns lo..hi with carry c coming in, and the carry out
\* of column lo (the right half of the columns first, then the left half)
Carry(cols) ==
  LET run[r \in Nat \X Int \X Int] ==
        IF r[1] > r[2] THEN [digits |-> << >>, out |-> r[3]]
        ELSE IF r[1] = r[2]
        THEN [digits |-> <<(cols[r[1]] + r[3]) % Radix>>,
              out |-> (cols[r[1]] + r[3]) \div Radix]
        ELSE LET mid == (r[1] + r[2]) \div 2
                 right == run[<<mid + 1, r[2], r[3]>>]
                 left == run[<<r[1], mid, right.out>>]
             IN  [digits |-> left.digits \o right.digits, out |-> left.out]
  IN  run[<<1, Len(cols), 0>>]

\* digits of sum_i cols[i] * 256^(Len(cols) - i)
Propagate(cols) ==
  LET all == Carry(cols) IN Trim(FromInt(all.out) \o all.digits)

\* digit of a at column i of a width-w layout (right aligned)
Digit(a, w, i) == IF i > w - Len(a) THEN a[i - (w - Len(a))] ELSE 0

BigAdd(a, b) ==
  LET w == Max2(Len(a), Len(b))
  IN  Propagate([i \in 1..w |-> Digit(a, w, i) + Digit(b, w, i)])

\* a - b for a >= b
BigSub(a, b) ==
  LET w == Max2(Len(a), Len(b))
  IN  Propagate([i \in 1..w |-> Digit(a, w, i) - Digit(b, w, i)])

\* a * q for a small natural q
BigMulSmall(a, q) == Propagate([i \in 1..Len(a) |-> a[i] * q])

RECURSIVE ColSum(_, _, _, _)
ColSum(a, b, k, i) ==
  IF i > Len(a) \/ i > k THEN 0
  ELSE (IF k + 1 - i <= Len(b) THEN a[i] * b[k + 1 - i] ELSE 0)
       + ColSum(a, b, k, i + 1)

BigMul(a, b) ==
  IF a = << >> \/ b = << >> THEN << >>
  ELSE Propagate([k \in 1..(Len(a) + Len(b) - 1) |-> ColSum(a, b, k, 1)])

\* value of the first cnt digits
RECURSIVE Top(_, _)
Top(s, cnt) == IF cnt = 0 THEN 0 ELSE Top(s, cnt - 1) * Radix + s[cnt]

\* t - q*n, lowering the estimate q of t div n until q*n <= t (until the
\* carry out of the leftmost column is not negative)
RECURSIVE Reduce(_, _, _)
Reduce(t, n, q) ==
  LET all == Carry([i \in 1..Len(t) |-> t[i] - q * Digit(n, Len(t), i)])
  IN  IF all.out < 0 THEN Reduce(t, n, q - 1)
      ELSE Trim(FromInt(all.out) \o all.digits)

\* (r * 256 + d) % n for r < n
ModStep(r, d, n) ==
  LET t == Trim(Append(r, d))
      P == Min2(Len(n), 2)
  IN  IF BigLess(t, n) THEN t
      ELSE Reduce(t, n, Top(t, Len(t) - (Len(n) - P)) \div Top(n, P))

\* x % n for n > 0, one digit of x at a time; v = <<x, n, i, r>> with r the
\* remainder of the digits before x[i]
RECURSIVE BigModFrom(_)
BigModFrom(v) ==
  IF v[3] > Len(v[1]) THEN v[4]
  ELSE BigModFrom(<<v[1], v[2], v[3] + 1, ModStep(v[4], v[1][v[3]], v[2])>>)

BigMod(x, n) ==
  IF Len(x) < Len(n) THEN x
  ELSE BigModFrom(<<x, n, Len(n), SubSeq(x, 1, Len(n) - 1)>>)

\* x % 2 = 1
BigOdd(x) == x # << >> /\ x[Len(x)] % 2 = 1

\* x >> 1
BigHalf(x) ==
  Trim([i \in 1..Len(x) |->
          ((IF i = 1 THEN 0 ELSE (x[i - 1] % 2) * Radix) + x[i]) \div 2])

(***************************************************************************)
(* Thrown errors: a call returns [ok |-> TRUE, val |-> v] or throws, which *)
(* is [ok |-> FALSE, err |-> message].                                     *)
(***************************************************************************)
Return(v) == [ok |-> TRUE, val |-> v]

Throw(msg) == [ok |-> FALSE, err |-> msg]

ErrNoInverse == "Modular inverse does not exist"

ErrTooLarge == "Message too large for key size"

ErrPadFormat == "Invalid padding format"

ErrPadSeparator == "Invalid padding: insufficient padding or missing separator"

ErrEmptyMessage == "Message cannot be empty"

ErrEmptyCiphertext == "Ciphertext cannot be empty"

ErrExceeds == "Padded message exceeds key modulus"

ErrAtob == "InvalidCharacterError"

ErrKeyFormat == "Invalid key format"

ErrMissingN == "Invalid PEM format: missing n"

\* an optional value: << >> is undefined
Undefined == << >>
Defined(v) == <<v>>

(***************************************************************************)
(* modPow                                                                  *)
(***************************************************************************)
BigNat == Seq(0..(Radix - 1))

\* variant of the loop body that forgets to square the base
modPowBodyNoSquare(v) ==
  [result |-> IF BigOdd(v.exp) THEN BigMod(BigMul(v.result, v.base), v.mod)
              ELSE v.result,
   exp    |-> BigHalf(v.exp),
   base   |-> v.base,
   mod    |-> v.mod]

\* the body of the while loop, on the loop's variables
modPowBody(v) ==
  [result |-> IF BigOdd(v.exp) THEN BigMod(BigMul(v.result, v.base), v.mod)
              ELSE v.result,
   exp    |-> BigHalf(v.exp),
   base   |-> BigMod(BigMul(v.base, v.base), v.mod),
   mod    |-> v.mod]

\* one more pass of the while loop, none once exp > 0n has failed
modPowPass(v) == IF BigLess(<< >>, v.exp) THEN modPowBody(v) ELSE v

\* the while loop, taken four passes at a time (a level of recursion for
\* every pass is more than the evaluator's stack holds for long exponents)
modPow(base, exp, mod) ==
  LET while[v \in [result : BigNat, base : BigNat, exp : BigNat, mod : BigNat]] ==
        IF BigLess(<< >>, v.exp)
        THEN while[modPowPass(modPowPass(modPowPass(modPowBody(v))))]
        ELSE v.result
  IN  while[[result |-> <<1>>, base |-> BigMod(base, mod), exp |-> exp,
             mod |-> mod]]

\* modPow on small numbers
modPowInt(base, exp, mod) ==
  ToInt(modPow(FromInt(base), FromInt(exp), FromInt(mod)))

(***************************************************************************)
(* byte codecs                                                             *)
(***************************************************************************)
\* number of binary digits of a byte 1..255
BitsOfByte(d) == CHOOSE k \in 1..8 : 2^(k - 1) <= d /\ d < 2^k

\* x.toString(2).length
bitLength(x) ==
  IF x = << >> THEN 1 ELSE 8 * (Len(x) - 1) + BitsOfByte(x[1])

\* Math.ceil(x.toString(2).length / 8)
byteLength(x) == (bitLength(x) + 7) \div 8

\* temp % 256n
BigLowByte(temp) == IF temp = << >> THEN 0 ELSE temp[Len(temp)]

\* temp / 256n
BigDropByte(temp) ==
  IF temp = << >> THEN << >> ELSE SubSeq(temp, 1, Len(temp) - 1)

\* the for loop of bigIntToBytes: bytes[i] = temp % 256n and temp = temp / 256n
\* for i from len - 1 down to 0 (bytes holds bytes[i + 1..len - 1])
bigIntToBytes(num, len) ==
  LET for[v \in [i : Int, temp : BigNat, bytes : BigNat]] ==
        IF v.i >= 0
        THEN for[[i |-> v.i - 1, temp |-> BigDropByte(v.temp),
                  bytes |-> <<BigLowByte(v.temp)>> \o v.bytes]]
        ELSE v.bytes
  IN  for[[i |-> len - 1, temp |-> num, bytes |-> << >>]]

\* result * 256n + BigInt(byte): the byte becomes the new last digit
BigShiftAdd(result, byte) == Trim(Append(result, byte))

RECURSIVE bytesToBigIntTo(_, _)
bytesToBigIntTo(bytes, i) ==
  IF i = 0 THEN << >>
  ELSE BigShiftAdd(bytesToBigIntTo(bytes, i - 1), bytes[i])

bytesToBigInt(bytes) == bytesToBigIntTo(bytes, Len(bytes))

\* character code of the Base64 digit v
B64Char(v) ==
  IF v < 26 THEN 65 + v
  ELSE IF v < 52 THEN 97 + (v - 26)
  ELSE IF v < 62 THEN 48 + (v - 52)
  ELSE IF v = 62 THEN 43 ELSE 47

B64Pad == 61

\* Base64 digit of a character code, -1 if it is none
B64Index(c) ==
  IF c >= 65 /\ c <= 90 THEN c - 65
  ELSE IF c >= 97 /\ c <= 122 THEN c - 97 + 26
  ELSE IF c >= 48 /\ c <= 57 THEN c - 48 + 52
  ELSE IF c = 43 THEN 62
  ELSE IF c = 47 THEN 63 ELSE -1

\* btoa of the binary string of bytes, from byte i on
RECURSIVE btoaFrom(_, _)
btoaFrom(bytes, i) ==
  LET left == Len(bytes) - i + 1
      b1 == bytes[i]
      b2 == IF left >= 2 THEN bytes[i + 1] ELSE 0
      b3 == IF left >= 3 THEN bytes[i + 2] ELSE 0
  IN  IF left <= 0 THEN << >>
      ELSE <<B64Char(b1 \div 4),
             B64Char((b1 % 4) * 16 + b2 \div 16),
             IF left >= 2 THEN B64Char((b2 % 16) * 4 + b3 \div 64) ELSE B64Pad,
             IF left >= 3 THEN B64Char(b3 % 64) ELSE B64Pad>>
           \o btoaFrom(bytes, i + 3)

bytesToBase64(bytes) == btoaFrom(bytes, 1)

\* atob: the text without the one or two '=' that may end a text whose
\* length is a multiple of 4
atobStrip(text) ==
  LET n == Len(text)
  IN  IF n % 4 = 0 /\ n > 0 /\ text[n] = B64Pad
      THEN IF text[n - 1] = B64Pad THEN SubSeq(text, 1, n - 2)
           ELSE SubSeq(text, 1, n - 1)
      ELSE text

\* bytes of the Base64 digits ds from digit i on; a last group of 2 or 3
\* digits gives 1 or 2 bytes
RECURSIVE atobFrom(_, _)
atobFrom(ds, i) ==
  LET left == Len(ds) - i + 1
      d1 == ds[i]
      d2 == ds[i + 1]
      d3 == IF left >= 3 THEN ds[i + 2] ELSE 0
      d4 == IF left >= 4 THEN ds[i + 3] ELSE 0
  IN  IF left <= 0 THEN << >>
      ELSE <<d1 * 4 + d2 \div 16>>
           \o (IF left >= 3 THEN <<(d2 % 16) * 16 + d3 \div 4>> ELSE << >>)
           \o (IF left >= 4 THEN <<(d3 % 4) * 64 + d4>> ELSE << >>)
           \o atobFrom(ds, i + 4)

base64ToBytes(base64) ==
  LET text == atobStrip(base64)
      ds == [i \in 1..Len(text) |-> B64Index(text[i])]
  IN  IF Len(text) % 4 = 1 \/ \E i \in 1..Len(text) : ds[i] = -1
      THEN Throw(ErrAtob)
      ELSE Return(atobFrom(ds, 1))

(***************************************************************************)
(* Text: a string is the sequence of its character codes (characters of    *)
(* the Basic Multilingual Plane, so one code per character).               *)
(***************************************************************************)
Replacement == 65533

\* new TextEncoder().encode(str): UTF-8 bytes of one character
utf8Bytes(c) ==
  IF c < 128 THEN <<c>>
  ELSE IF c < 2048 THEN <<192 + (c \div 64), 128 + (c % 64)>>
  ELSE IF c >= 55296 /\ c <= 57343 THEN <<239, 191, 189>>
  ELSE <<224 + (c \div 4096), 128 + ((c \div 64) % 64), 128 + (c % 64)>>

RECURSIVE TextEncodeTo(_, _)
TextEncodeTo(str, i) ==
  IF i = 0 THEN << >> ELSE TextEncodeTo(str, i - 1) \o utf8Bytes(str[i])

TextEncode(str) == TextEncodeTo(str, Len(str))

\* continuation bytes the lead byte b announces (0: b is no lead byte)
utf8Needed(b) ==
  IF b >= 194 /\ b <= 223 THEN 1
  ELSE IF b >= 224 /\ b <= 239 THEN 2
  ELSE IF b >= 240 /\ b <= 244 THEN 3 ELSE 0

\* is byte c allowed as the j-th continuation byte after lead byte b
utf8Continues(b, j, c) ==
  LET lo == IF j = 1 /\ b = 224 THEN 160 ELSE IF j = 1 /\ b = 240 THEN 144 ELSE 128
      hi == IF j = 1 /\ b = 237 THEN 159 ELSE IF j = 1 /\ b = 244 THEN 143 ELSE 191
  IN  c >= lo /\ c <= hi

\* number of acceptable continuation bytes that follow the lead byte at i
utf8Seen(bytes, i) ==
  LET b == bytes[i]
      okAt(j) == i + j <= Len(bytes) /\ utf8Continues(b, j, bytes[i + j])
  IN  IF ~(utf8Needed(b) >= 1 /\ okAt(1)) THEN 0
      ELSE IF ~(utf8Needed(b) >= 2 /\ okAt(2)) THEN 1
      ELSE IF ~(utf8Needed(b) >= 3 /\ okAt(3)) THEN 2 ELSE 3

utf8CodePoint(bytes, i) ==
  LET b == bytes[i]
  IN  IF utf8Needed(b) = 1 THEN (b - 192) * 64 + (bytes[i + 1] - 128)
      ELSE IF utf8Needed(b) = 2
      THEN (b - 224) * 4096 + (bytes[i + 1] - 128) * 64 + (bytes[i + 2] - 128)
      ELSE (b - 240) * 262144 + (bytes[i + 1] - 128) * 4096
           + (bytes[i + 2] - 128) * 64 + (bytes[i + 3] - 128)

\* the decoder of TextDecoder: malformed input gives U+FFFD, the byte that
\* breaks a sequence is read again
RECURSIVE utf8DecodeFrom(_, _)
utf8DecodeFrom(bytes, i) ==
  IF i > Len(bytes) THEN << >>
  ELSE IF bytes[i] < 128 THEN <<bytes[i]>> \o utf8DecodeFrom(bytes, i + 1)
  ELSE IF utf8Needed(bytes[i]) = 0
       THEN <<Replacement>> \o utf8DecodeFrom(bytes, i + 1)
  ELSE IF utf8Seen(bytes, i) = utf8Needed(bytes[i])
       THEN <<utf8CodePoint(bytes, i)>>
            \o utf8DecodeFrom(bytes, i + 1 + utf8Needed(bytes[i]))
  ELSE <<Replacement>> \o utf8DecodeFrom(bytes, i + 1 + utf8Seen(bytes, i))

\* new TextDecoder().decode(bytes): a leading byte order mark is dropped
TextDecode(bytes) ==
  IF Len(bytes) >= 3 /\ SubSeq(bytes, 1, 3) = <<239, 187, 191>>
  THEN utf8DecodeFrom(bytes, 4)
  ELSE utf8DecodeFrom(bytes, 1)

Colon == 58

\* chunks.join(":")
RECURSIVE JoinTo(_, _)
JoinTo(chunks, i) ==
  IF i = 0 THEN << >>
  ELSE IF i = 1 THEN chunks[1]
  ELSE JoinTo(chunks, i - 1) \o <<Colon>> \o chunks[i]

Join(chunks) == JoinTo(chunks, Len(chunks))

\* chunks.join("")
RECURSIVE ConcatTo(_, _)
ConcatTo(chunks, i) ==
  IF i = 0 THEN << >> ELSE ConcatTo(chunks, i - 1) \o chunks[i]

Concat(chunks) == ConcatTo(chunks, Len(chunks))

\* text.split(":"): the pieces between the colons, one more than there are
\* colons
Split(text) ==
  LET colons == {i \in 1..Len(text) : text[i] = Colon}
      colon(k) == CHOOSE i \in colons : Cardinality({j \in colons : j < i}) = k - 1
      first(k) == IF k = 1 THEN 1 ELSE colon(k - 1) + 1
      last(k) == IF k = Cardinality(colons) + 1 THEN Len(text) ELSE colon(k) - 1
  IN  [k \in 1..(Cardinality(colons) + 1) |-> SubSeq(text, first(k), last(k))]

\* bytes.slice(from, to) with 0-based bounds, to exclusive and clipped
Slice(bytes, from, to) == SubSeq(bytes, from + 1, Min2(to, Len(bytes)))

(***************************************************************************)
(* key export and import                                                   *)
(***************************************************************************)
\* the characters \s matches and trim() removes, among those that occur
Whitespace == {9, 10, 11, 12, 13, 32}

LineFeed == 10

\* "-----"
Dashes == <<45, 45, 45, 45, 45>>

\* "RSA PRIVATE KEY" or "RSA PUBLIC KEY"
keyTypeOf(isPrivate) ==
  IF isPrivate
  THEN <<82, 83, 65, 32, 80, 82, 73, 86, 65, 84, 69, 32, 75, 69, 89>>
  ELSE <<82, 83, 65, 32, 80, 85, 66, 76, 73, 67, 32, 75, 69, 89>>

\* "-----BEGIN " and "-----END "
PemBegin == Dashes \o <<66, 69, 71, 73, 78, 32>>
PemEnd == Dashes \o <<69, 78, 68, 32>>

\* `${letter}: ${base64}`
fieldText(letter, base64) == <<letter, Colon, 32>> \o base64

\* bytesToBase64(bigIntToBytes(x, Math.ceil(x.toString(2).length / 8)))
base64Of(x) == bytesToBase64(bigIntToBytes(x, byteLength(x)))

\* chunkString(str, size) from offset i on
RECURSIVE chunkStringFrom(_, _, _)
chunkStringFrom(str, size, i) ==
  IF i < Len(str)
  THEN <<Slice(str, i, i + size)>> \o chunkStringFrom(str, size, i + size)
  ELSE << >>

chunkString(str, size) == chunkStringFrom(str, size, 0)

\* lines.join("\n")
RECURSIVE joinLinesTo(_, _)
joinLinesTo(lines, i) ==
  IF i = 0 THEN << >>
  ELSE IF i = 1 THEN lines[1]
  ELSE joinLinesTo(lines, i - 1) \o <<LineFeed>> \o lines[i]

\* a missing key component is undefined; 0n is falsy as undefined is
Truthy(component) == component # Undefined /\ component[1] # << >>

formatKeyPEM(key, isPrivate) ==
  LET nBase64 == base64Of(key.n)
      keyData ==
        IF isPrivate
        THEN fieldText(110, nBase64) \o <<LineFeed>>
               \o fieldText(100, base64Of(key.d[1]))
        ELSE fieldText(110, nBase64) \o <<LineFeed>>
               \o fieldText(101, base64Of(key.e[1]))
      pemLines ==
        <<PemBegin \o keyTypeOf(isPrivate) \o Dashes>>
          \o chunkString(keyData, 64)
          \o <<PemEnd \o keyTypeOf(isPrivate) \o Dashes>>
  IN  IF (isPrivate /\ Truthy(key.d)) \/ (~isPrivate /\ Truthy(key.e))
      THEN Return(joinLinesTo(pemLines, Len(pemLines)))
      ELSE Throw(ErrKeyFormat)

\* pemString.split("\n"): the pieces between the line feeds, one more than
\* there are line feeds
splitLines(text) ==
  LET feeds == {i \in 1..Len(text) : text[i] = LineFeed}
      feed(k) == CHOOSE i \in feeds : Cardinality({j \in feeds : j < i}) = k - 1
      first(k) == IF k = 1 THEN 1 ELSE feed(k - 1) + 1
      last(k) == IF k = Cardinality(feeds) + 1 THEN Len(text) ELSE feed(k) - 1
  IN  [k \in 1..(Cardinality(feeds) + 1) |-> SubSeq(text, first(k), last(k))]

\* line.trim() && !line.includes("-----")
keepLine(line) ==
  /\ \E i \in 1..Len(line) : line[i] \notin Whitespace
  /\ ~\E i \in 1..(Len(line) - 4) : SubSeq(line, i, i + 4) = Dashes

\* the lines kept by the filter, joined by ""
RECURSIVE keptLinesTo(_, _)
keptLinesTo(lines, i) ==
  IF i = 0 THEN << >>
  ELSE keptLinesTo(lines, i - 1) \o (IF keepLine(lines[i]) THEN lines[i] ELSE << >>)

\* first index from i on where text has no whitespace (Len(text) + 1 if none)
skipWhitespace(text, i) ==
  CHOOSE j \in i..(Len(text) + 1) :
    /\ j = Len(text) + 1 \/ text[j] \notin Whitespace
    /\ \A m \in i..(j - 1) : text[m] \in Whitespace

\* first index from i on where text has whitespace (Len(text) + 1 if none)
skipText(text, i) ==
  CHOOSE j \in i..(Len(text) + 1) :
    /\ j = Len(text) + 1 \/ text[j] \in Whitespace
    /\ \A m \in i..(j - 1) : text[m] \notin Whitespace

\* keyData.match(/<letter>:\s*([^\s]+)/): the captured group of the match
\* at the first index where there is one, undefined if there is no match
matchField(keyData, letter) ==
  LET matches ==
        {i \in 1..(Len(keyData) - 1) :
           /\ keyData[i] = letter
           /\ keyData[i + 1] = Colon
           /\ skipWhitespace(keyData, i + 2) <= Len(keyData)}
      index == CHOOSE i \in matches : \A j \in matches : i <= j
      from == skipWhitespace(keyData, index + 2)
  IN  IF matches = {} THEN Undefined
      ELSE Defined(SubSeq(keyData, from, skipText(keyData, from) - 1))

\* bytesToBigInt(base64ToBytes(match[1])) of an optional match
componentOf(match) ==
  IF match = Undefined THEN Return(Undefined)
  ELSE IF ~base64ToBytes(match[1]).ok THEN base64ToBytes(match[1])
  ELSE Return(Defined(bytesToBigInt(base64ToBytes(match[1]).val)))

parseKeyPEM(pemString) ==
  LET lines == splitLines(pemString)
      keyData == keptLinesTo(lines, Len(lines))
      nMatch == matchField(keyData, 110)
      eMatch == matchField(keyData, 101)
      dMatch == matchField(keyData, 100)
      n == componentOf(nMatch)
      e == componentOf(eMatch)
      d == componentOf(dMatch)
  IN  IF nMatch = Undefined THEN Throw(ErrMissingN)
      ELSE IF ~n.ok THEN n
      ELSE IF ~e.ok THEN e
      ELSE IF ~d.ok THEN d
      ELSE Return([n |-> n.val[1], e |-> e.val, d |-> d.val])

(***************************************************************************)
(* padding.  The random bytes are an input: rnd.raw is what                *)
(* crypto.getRandomValues delivers (taken cyclically), rnd.regen what      *)
(* Math.floor(Math.random() * 255) + 1 delivers for a byte that came out 0 *)
(***************************************************************************)
\* variant of the size test that is off by one
paddingTooSmallOffByOne(paddingSize) == paddingSize < 9

\* variant of the size test that lets 7 padding bytes through
paddingTooSmallBelowSeven(paddingSize) == paddingSize < 7

\* paddingSize < 8
paddingTooSmall(paddingSize) == paddingSize < 8

\* variant of the padding loop that keeps zero bytes
keepByte(b, regen) == b

\* the loop that replaces zero padding bytes
nonZeroByte(b, regen) == IF b = 0 THEN regen ELSE b

paddingBytesOf(paddingSize, rnd) ==
  [i \in 1..paddingSize |->
     nonZeroByte(rnd.raw[((i - 1) % Len(rnd.raw)) + 1], rnd.regen)]

\* variant of the block with block type 0x01 in place of 0x02
paddedBytesOfBlockTypeOne(keySizeBytes, paddingBytes, messageBytes) ==
  LET paddingSize == Len(paddingBytes)
  IN  [i \in 1..keySizeBytes |->
         IF i = 1 THEN 0
         ELSE IF i = 2 THEN 1
         ELSE IF i <= 2 + paddingSize THEN paddingBytes[i - 2]
         ELSE IF i = 3 + paddingSize THEN 0
         ELSE messageBytes[i - 3 - paddingSize]]

\* variant of the block with 0x02 in its first byte
paddedBytesOfHighByte(keySizeBytes, paddingBytes, messageBytes) ==
  LET paddingSize == Len(paddingBytes)
  IN  [i \in 1..keySizeBytes |->
         IF i = 1 THEN 2
         ELSE IF i = 2 THEN 2
         ELSE IF i <= 2 + paddingSize THEN paddingBytes[i - 2]
         ELSE IF i = 3 + paddingSize THEN 0
         ELSE messageBytes[i - 3 - paddingSize]]

\* 0x00 0x02 [padding] 0x00 [message]
paddedBytesOf(keySizeBytes, paddingBytes, messageBytes) ==
  LET paddingSize == Len(paddingBytes)
  IN  [i \in 1..keySizeBytes |->
         IF i = 1 THEN 0
         ELSE IF i = 2 THEN 2
         ELSE IF i <= 2 + paddingSize THEN paddingBytes[i - 2]
         ELSE IF i = 3 + paddingSize THEN 0
         ELSE messageBytes[i - 3 - paddingSize]]

padMessage(message, keySizeBytes, rnd) ==
  LET messageBytes == bigIntToBytes(message, byteLength(message))
      messageSize == Len(messageBytes)
      paddingSize == keySizeBytes - messageSize - 3
  IN  IF paddingTooSmall(paddingSize) THEN Throw(ErrTooLarge)
      ELSE Return(bytesToBigInt(
             paddedBytesOf(keySizeBytes, paddingBytesOf(paddingSize, rnd),
                           messageBytes)))

\* bytes[i] with a 0-based index; -1 stands for undefined (past the end)
At(bytes, i) == IF i < Len(bytes) THEN bytes[i + 1] ELSE -1

\* bytes[0] !== 0x00 || bytes[1] !== 0x02
badHeader(bytes) == At(bytes, 0) # 0 \/ At(bytes, 1) # 2

\* the scan for the 0x00 separator from index i on; -1 if there is none
RECURSIVE separatorFrom(_, _)
separatorFrom(bytes, i) ==
  IF i >= Len(bytes) THEN -1
  ELSE IF At(bytes, i) = 0 THEN i ELSE separatorFrom(bytes, i + 1)

\* variant of the test that forgets the minimum padding length
badSeparatorNoMinimum(separatorIndex) == separatorIndex = -1

\* separatorIndex === -1 || separatorIndex < 10
badSeparator(separatorIndex) == separatorIndex = -1 \/ separatorIndex < 10

unpadMessage(padded, keySizeBytes) ==
  LET bytes == bigIntToBytes(padded, keySizeBytes)
      separatorIndex == separatorFrom(bytes, 2)
  IN  IF badHeader(bytes) THEN Throw(ErrPadFormat)
      ELSE IF badSeparator(separatorIndex) THEN Throw(ErrPadSeparator)
      ELSE Return(bytesToBigInt(Slice(bytes, separatorIndex + 1, Len(bytes))))

(***************************************************************************)
(* number theory on small operands (native integers)                       *)
(***************************************************************************)
\* the values randomBigInt(min, max) can return: a draw above max - min is
\* drawn again, the accepted draw is shifted by min
randomBigInt(min, max) == {result + min : result \in 0..(max - min)}

\* the while loop of modInverse, run to its end
RECURSIVE euclid(_, _, _, _)
euclid(oldR, r, oldS, s) ==
  IF r # 0
  THEN LET quotient == oldR \div r
       IN  euclid(r, oldR - quotient * r, s, oldS - quotient * s)
  ELSE [oldR |-> oldR, oldS |-> oldS]

\* variant of the test that lets a common divisor 2 through
noInverseAboveTwo(oldR) == oldR > 2

\* oldR > 1n
noInverse(oldR) == oldR > 1

modInverse(a, m) ==
  IF m = 1 THEN Return(1)
  ELSE LET end == euclid(a, m, 1, 0)
       IN  IF noInverse(end.oldR) THEN Throw(ErrNoInverse)
           ELSE Return(IF end.oldS < 0 THEN end.oldS + m ELSE end.oldS)

\* default number of Miller-Rabin rounds
DefaultWitnesses == 10

\* n - 1 = d * 2^r with d odd
RECURSIVE factorTwos(_, _)
factorTwos(d, r) ==
  IF d % 2 = 0 THEN factorTwos(d \div 2, r + 1) ELSE [d |-> d, r |-> r]

\* variant of the test that forgets x === n - 1n
witnessPassesOnlyOne(x, n) == x = 1

\* x === 1n || x === n - 1n
witnessPasses(x, n) == x = 1 \/ x = n - 1

\* variant of the inner loop that squares once less: j < r - 2
RECURSIVE squaringsOneShort(_, _, _, _)
squaringsOneShort(x, j, r, n) ==
  IF j < r - 2
  THEN LET x2 == modPowInt(x, 2, n)
       IN  IF x2 = n - 1 THEN FALSE ELSE squaringsOneShort(x2, j + 1, r, n)
  ELSE TRUE

\* the inner loop of a round from j on: TRUE if composite stays set
RECURSIVE squarings(_, _, _, _)
squarings(x, j, r, n) ==
  IF j < r - 1
  THEN LET x2 == modPowInt(x, 2, n)
       IN  IF x2 = n - 1 THEN FALSE ELSE squarings(x2, j + 1, r, n)
  ELSE TRUE

\* one round with witness a: TRUE if the round ends in "return false"
roundFails(a, d, r, n) ==
  LET x == modPowInt(a, d, n)
  IN  IF witnessPasses(x, n) THEN FALSE ELSE squarings(x, 0, r, n)

\* what the witness loop of isProbablyPrime can return from round i on, when
\* some draw can fail a round (canFail) and some draw can pass one (canPass)
RECURSIVE witnessLoop(_, _, _, _)
witnessLoop(canFail, canPass, k, i) ==
  IF i < k
  THEN (IF canFail THEN {FALSE} ELSE {})
         \cup (IF canPass THEN witnessLoop(canFail, canPass, k, i + 1) ELSE {})
  ELSE {TRUE}

\* the values isProbablyPrime(n, k) can return, over the witnesses drawn
isProbablyPrime(n, k) ==
  IF n = 2 \/ n = 3 THEN {TRUE}
  ELSE IF n % 2 = 0 \/ n < 2 THEN {FALSE}
  ELSE LET f == factorTwos(n - 1, 0)
           draws == randomBigInt(2, n - 2)
       IN  witnessLoop(\E a \in draws : roundFails(a, f.d, f.r, n),
                       \E a \in draws : ~roundFails(a, f.d, f.r, n), k, 0)

\* candidate | 1n
oddCandidate(candidate) ==
  IF candidate % 2 = 0 THEN candidate + 1 ELSE candidate

\* 2n ** BigInt(bits)
RECURSIVE twoToThe(_)
twoToThe(bits) == IF bits = 0 THEN 1 ELSE 2 * twoToThe(bits - 1)

\* the values generateLargePrime(bits) can return: the odd candidates that
\* isProbablyPrime can accept
generateLargePrime(bits) ==
  {oddCandidate(candidate) :
     candidate \in {c \in randomBigInt(twoToThe(bits - 1), twoToThe(bits) - 1) :
                      TRUE \in isProbablyPrime(oddCandidate(c), DefaultWitnesses)}}

\* const e = 65537n
PublicExponent == 65537

\* variant that returns a key pair with d = 0 when e has no inverse
generateKeyPairQuiet(p, q) ==
  LET n == p * q
      phi == (p - 1) * (q - 1)
      e == PublicExponent
      d == modInverse(e, phi)
  IN  Return([publicKey |-> [n |-> n, e |-> e],
              privateKey |-> [n |-> n, d |-> IF d.ok THEN d.val ELSE 0]])

\* generateKeyPair once the two primes are drawn
generateKeyPair(p, q) ==
  LET n == p * q
      phi == (p - 1) * (q - 1)
      e == PublicExponent
      d == modInverse(e, phi)
  IN  IF ~d.ok THEN d
      ELSE Return([publicKey |-> [n |-> n, e |-> e],
                   privateKey |-> [n |-> n, d |-> d.val]])

(***************************************************************************)
(* The state: one call at a time.  pc is the position of the running call, *)
(* fn its name, args its arguments, loc its local variables, ret how it    *)
(* ended, trace what the onStep callback has received, history the calls   *)
(* completed before it.                                                    *)
(***************************************************************************)
VARIABLES pc, fn, args, loc, ret, trace, history

vars == <<pc, fn, args, loc, ret, trace, history>>

\* ret while the call has not ended
Pending == [ok |-> FALSE, err |-> "pending"]

NoArgs == [none |-> TRUE]

Idle ==
  /\ pc = "idle"
  /\ fn = "none"
  /\ args = NoArgs
  /\ loc = NoArgs
  /\ ret = Pending
  /\ trace = << >>
  /\ history = << >>

\* a call that runs in one step
Complete(name, arguments, result) ==
  /\ pc' = "done"
  /\ fn' = name
  /\ args' = arguments
  /\ ret' = result
  /\ UNCHANGED <<loc, trace, history>>

(***************************************************************************)
(* bounds of the inputs                                                    *)
(***************************************************************************)
MaxBase == 7
MaxExp == 9
MaxMod == 12
MaxInvArg == 13
MaxPrimeArg == 27
MaxPadBytes == 3
MaxKeyBytes == 14
PrimeBits == 5

\* moduli of more than one digit, besides 1..MaxMod
WideModuli == {255, 256, 257, 65537, 1000003}

\* what the random sources deliver for the padding
RandomSources == [raw : {<<0>>, <<255>>, <<0, 1>>, <<7, 0, 0>>}, regen : {1, 255}]

\* message integers of at most len bytes
Naturals256(digits, len) ==
  {m \in UNION {[1..l -> digits] : l \in 0..len} : m = << >> \/ m[1] # 0}

\* a keySizeBytes-byte buffer: two header bytes, then filler bytes, zero at
\* the offsets in zeros
Buffer(keySizeBytes, header, filler, zeros) ==
  [i \in 1..keySizeBytes |->
     IF i <= 2 THEN header[i] ELSE IF (i - 1) \in zeros THEN 0 ELSE filler]

Headers == {<<0, 2>>, <<1, 2>>, <<0, 1>>, <<0, 0>>, <<2, 2>>}

(***************************************************************************)
(* calls of the helpers                                                    *)
(***************************************************************************)
CallModPow ==
  /\ pc = "idle"
  /\ \E base \in 0..MaxBase, exp \in 0..MaxExp,
        mod \in (1..MaxMod) \cup WideModuli :
       Complete("modPow", [base |-> base, exp |-> exp, mod |-> mod],
                Return(modPowInt(base, exp, mod)))

CallModInverse ==
  /\ pc = "idle"
  /\ \E a \in 0..MaxInvArg, m \in 1..MaxInvArg :
       Complete("modInverse", [a |-> a, m |-> m], modInverse(a, m))

CallPadMessage ==
  /\ pc = "idle"
  /\ \E message \in Naturals256({0, 1, 255}, MaxPadBytes),
        keySizeBytes \in 0..MaxKeyBytes, rnd \in RandomSources :
       Complete("padMessage",
                [message |-> message, keySizeBytes |-> keySizeBytes, rnd |-> rnd],
                padMessage(message, keySizeBytes, rnd))

\* unpadMessage on what padMessage returned, with the same key size
CallUnpadPadded ==
  /\ pc = "done"
  /\ fn = "padMessage"
  /\ ret.ok
  /\ fn' = "unpadMessage"
  /\ args' = [padded |-> ret.val, keySizeBytes |-> args.keySizeBytes]
  /\ ret' = unpadMessage(ret.val, args.keySizeBytes)
  /\ history' = Append(history, [fn |-> fn, args |-> args, ret |-> ret])
  /\ UNCHANGED <<pc, loc, trace>>

\* unpadMessage on the integer a given buffer encodes
CallUnpadMessage ==
  /\ pc = "idle"
  /\ \E keySizeBytes \in 0..MaxKeyBytes, header \in Headers, filler \in {1, 255} :
       \E z1, z2 \in 1..Max2(1, keySizeBytes - 1) :
          LET buffer == Buffer(keySizeBytes, header, filler, {z1, z2} \ {1})
          IN  Complete("unpadMessage",
                       [padded |-> bytesToBigInt(buffer),
                        keySizeBytes |-> keySizeBytes, buffer |-> buffer],
                       unpadMessage(bytesToBigInt(buffer), keySizeBytes))

\* the primes generateKeyPair can draw, of PrimeBits bits where the source
\* takes 1024
Primes == generateLargePrime(PrimeBits)

\* a prime p with p - 1 a multiple of e = 65537 (14 * 65537 + 1), for the
\* primes of this kind among the primes of 1024 bits
PrimeOverExponent == 917519

PrimeDraws == Primes \cup {PrimeOverExponent}

\* generateKeyPair up to the second prime; loc keeps the two primes drawn
\* (at most one of them the large one: the integers of the model end at
\* 2^31 - 1)
CallGenerateKeyPair ==
  /\ pc = "idle"
  /\ \E p \in PrimeDraws, q \in PrimeDraws :
       /\ p \in Primes \/ q \in Primes
       /\ pc' = "primes"
       /\ fn' = "generateKeyPair"
       /\ args' = NoArgs
       /\ loc' = [p |-> p, q |-> q]
  /\ UNCHANGED <<ret, trace, history>>

\* n, phi, e, d and the return
KeyPairFromPrimes ==
  /\ fn = "generateKeyPair"
  /\ pc = "primes"
  /\ pc' = "done"
  /\ ret' = generateKeyPair(loc.p, loc.q)
  /\ UNCHANGED <<fn, args, loc, trace, history>>

\* a modulus and a private exponent of 24 bytes, so that the key data of the
\* private key fill more than one line of 64 characters
LongModulus == [i \in 1..24 |-> (i * 37) % 256]
LongExponent == [i \in 1..24 |-> (i * 91) % 256]

\* the keys exported: moduli of 1, 12 and 24 bytes, with the public or the
\* private exponent
PemKeys ==
  [n : {<<221>>, <<8, 250, 74, 16, 188, 245, 14, 194, 214, 26, 136, 133>>,
        LongModulus},
   e : {Defined(<<1, 0, 1>>), Defined(<<5>>)}, d : {Undefined}]
  \cup
  [n : {<<221>>, LongModulus}, e : {Undefined},
   d : {Defined(<<77>>), Defined(<<1, 201, 21, 117>>), Defined(<< >>),
        Defined(LongExponent)}]

\* texts given to parseKeyPEM that formatKeyPEM did not write: "",
\* "e: AQAB", a frame without key data, "n: 3Q== e: BQ==" and "n: 3Q==" with
\* "d: TQ==" on the next line
PemTexts ==
  {<< >>,
   <<101, 58, 32, 65, 81, 65, 66>>,
   PemBegin \o keyTypeOf(FALSE) \o Dashes \o <<LineFeed>>
     \o PemEnd \o keyTypeOf(FALSE) \o Dashes,
   <<110, 58, 32, 51, 81, 61, 61, 32, 101, 58, 32, 66, 81, 61, 61>>,
   <<110, 58, 32, 51, 81, 61, 61, 10, 100, 58, 32, 84, 81, 61, 61>>}

CallFormatKeyPEM ==
  /\ pc = "idle"
  /\ \E key \in PemKeys, isPrivate \in BOOLEAN :
       Complete("formatKeyPEM", [key |-> key, isPrivate |-> isPrivate],
                formatKeyPEM(key, isPrivate))

\* parseKeyPEM on what formatKeyPEM returned
CallParseFormatted ==
  /\ pc = "done"
  /\ fn = "formatKeyPEM"
  /\ ret.ok
  /\ fn' = "parseKeyPEM"
  /\ args' = [pemString |-> ret.val]
  /\ ret' = parseKeyPEM(ret.val)
  /\ history' = Append(history, [fn |-> fn, args |-> args, ret |-> ret])
  /\ UNCHANGED <<pc, loc, trace>>

\* parseKeyPEM on another text
CallParseKeyPEM ==
  /\ pc = "idle"
  /\ \E pemString \in PemTexts :
       Complete("parseKeyPEM", [pemString |-> pemString], parseKeyPEM(pemString))

(***************************************************************************)
(* isProbablyPrime, one witness round at a time                            *)
(***************************************************************************)
\* b^e by repeated multiplication
RECURSIVE Power(_, _)
Power(b, e) == IF e = 0 THEN 1 ELSE b * Power(b, e - 1)

\* b^e mod n by repeated multiplication
RECURSIVE PowerMod(_, _, _)
PowerMod(b, e, n) == IF e = 0 THEN 1 % n ELSE (b * PowerMod(b, e - 1, n)) % n

\* a is a strong liar for the odd number n: with n - 1 = d * 2^r, d odd,
\* a^d = 1 or a^(d * 2^j) = -1 (mod n) for some j < r
StrongLiar(a, n) ==
  \E d \in 1..(n - 1), r \in 0..(n - 1) :
     /\ d % 2 = 1
     /\ d * Power(2, r) = n - 1
     /\ \/ PowerMod(a, d, n) = 1
        \/ \E j \in 0..(r - 1) : PowerMod(a, d * Power(2, j), n) = n - 1

CallIsProbablyPrime ==
  /\ pc = "idle"
  /\ \E n \in 0..MaxPrimeArg :
       /\ fn' = "isProbablyPrime"
       /\ args' = [n |-> n, k |-> DefaultWitnesses]
       /\ IF n = 2 \/ n = 3
          THEN pc' = "done" /\ ret' = Return(TRUE) /\ loc' = loc
          ELSE IF n % 2 = 0 \/ n < 2
          THEN pc' = "done" /\ ret' = Return(FALSE) /\ loc' = loc
          ELSE /\ pc' = "witness"
               /\ ret' = ret
               /\ loc' = [d |-> factorTwos(n - 1, 0).d, r |-> factorTwos(n - 1, 0).r,
                          i |-> 0, onlyLiars |-> TRUE]
  /\ UNCHANGED <<trace, history>>

\* one round of the witness loop; loc.onlyLiars records whether every
\* witness drawn so far is a strong liar for n
WitnessRound ==
  /\ pc = "witness"
  /\ loc.i < args.k
  /\ \E a \in randomBigInt(2, args.n - 2) :
       IF roundFails(a, loc.d, loc.r, args.n)
       THEN /\ pc' = "done"
            /\ ret' = Return(FALSE)
            /\ loc' = [loc EXCEPT !.onlyLiars = @ /\ StrongLiar(a, args.n)]
       ELSE /\ pc' = pc
            /\ ret' = ret
            /\ loc' = [loc EXCEPT !.i = @ + 1,
                               !.onlyLiars = @ /\ StrongLiar(a, args.n)]
  /\ UNCHANGED <<fn, args, trace, history>>

\* the witness loop ran out: return true
WitnessesPassed ==
  /\ pc = "witness"
  /\ loc.i >= args.k
  /\ pc' = "done"
  /\ ret' = Return(TRUE)
  /\ UNCHANGED <<fn, args, loc, trace, history>>

Init == Idle

Next ==
  \/ CallModPow
  \/ CallModInverse
  \/ CallPadMessage
  \/ CallUnpadPadded
  \/ CallUnpadMessage
  \/ CallIsProbablyPrime
  \/ WitnessRound
  \/ WitnessesPassed
  \/ CallGenerateKeyPair
  \/ KeyPairFromPrimes
  \/ CallFormatKeyPEM
  \/ CallParseFormatted
  \/ CallParseKeyPEM

Spec == Init /\ [][Next]_vars

(***************************************************************************)
(* properties of the helpers                                               *)
(***************************************************************************)
Returned(name) == pc = "done" /\ fn = name

\* bytes the message integer m needs (zero needs one byte)
NeededBytes(m) == IF m = << >> THEN 1 ELSE Len(m)

Divides(d, x) == x % d = 0

\* greatest common divisor of a >= 0 and m >= 1
Gcd(a, m) ==
  CHOOSE g \in 1..Max2(a, m) :
    /\ Divides(g, a) /\ Divides(g, m)
    /\ \A h \in (g + 1)..Max2(a, m) : ~(Divides(h, a) /\ Divides(h, m))

IsPrime(n) == n >= 2 /\ \A d \in 2..(n - 1) : ~Divides(d, n)

\* C2: unpadMessage(padMessage(m, k), k) = m for every key byte length k,
\* every message integer m of at most k - 11 bytes (for which padMessage
\* returns) and every choice of random padding bytes
PadUnpadRoundTrip ==
  /\ (Returned("padMessage")
        /\ NeededBytes(args.message) <= args.keySizeBytes - 11) => ret.ok
  /\ (Returned("unpadMessage") /\ history # << >>) =>
        ret = Return(history[Len(history)].args.message)

PadUnpadReached ==
  /\ Returned("unpadMessage")
  /\ history # << >>
  /\ history[1].args.message = <<1, 0, 255>>
  /\ history[1].args.keySizeBytes = 14
  /\ history[1].args.rnd.raw = <<0>>
  /\ ret = Return(<<1, 0, 255>>)

\* C3: modPow(base, exp, mod) = base^exp mod mod for base >= 0, exp >= 0 and
\* mod > 1; modPow(a, 0, m) = 1, modPow(a, 1, m) = a mod m, and the result
\* lies in [0, mod)
ModPowComputesPower ==
  (Returned("modPow") /\ args.mod > 1) =>
     /\ ret = Return(Power(args.base, args.exp) % args.mod)
     /\ ret.val \in 0..(args.mod - 1)
     /\ (args.exp = 0 => ret.val = 1)
     /\ (args.exp = 1 => ret.val = args.base % args.mod)

ModPowReached ==
  /\ Returned("modPow")
  /\ args = [base |-> 7, exp |-> 9, mod |-> 1000003]
  /\ ret = Return(353487)

\* C4 as claimed: modInverse(a, m) returns d with (a * d) mod m = 1 whenever
\* gcd(a, m) = 1, and throws "Modular inverse does not exist" whenever
\* gcd(a, m) # 1 and for a = 0
ModInverseAsClaimed ==
  Returned("modInverse") =>
     IF Gcd(args.a, args.m) = 1 /\ args.a # 0
     THEN ret.ok /\ (args.a * ret.val) % args.m = 1
     ELSE ret = Throw(ErrNoInverse)

\* C4 amended: for m >= 2 (and a >= 0) modInverse(a, m) returns d with
\* (a * d) mod m = 1 whenever gcd(a, m) = 1 and throws "Modular inverse does
\* not exist" otherwise (a = 0 included); for m = 1 it returns 1 for every a
ModInverseAmended ==
  Returned("modInverse") =>
     IF args.m = 1 THEN ret = Return(1)
     ELSE IF Gcd(args.a, args.m) = 1
     THEN ret.ok /\ (args.a * ret.val) % args.m = 1
     ELSE ret = Throw(ErrNoInverse)

ModInverseReached ==
  /\ Returned("modInverse")
  /\ args = [a |-> 7, m |-> 13]
  /\ ret = Return(2)

\* C5 as claimed: isProbablyPrime(n) returns true for every prime n and false
\* for every composite n, whatever witnesses are drawn
MillerRabinAsClaimed ==
  Returned("isProbablyPrime") => ret = Return(IsPrime(args.n))

\* C5 amended: isProbablyPrime(n) returns true for every prime n, false for
\* every n < 2 and every even n > 2, and for an odd composite n it returns
\* false unless all 10 witnesses drawn are strong liars for n
MillerRabinAmended ==
  Returned("isProbablyPrime") =>
     IF IsPrime(args.n) THEN ret = Return(TRUE)
     ELSE IF args.n < 2 \/ args.n % 2 = 0 THEN ret = Return(FALSE)
     ELSE ret = Return(loc.onlyLiars /\ loc.i = DefaultWitnesses)

MillerRabinReached ==
  /\ Returned("isProbablyPrime")
  /\ args.n = 25
  /\ loc.onlyLiars
  /\ ret = Return(TRUE)

\* C9: padMessage(m, k) throws "Message too large for key size" exactly when
\* m needs more than k - 11 bytes, and returns for every m of at most k - 11
\* bytes
PadRejectsOversize ==
  Returned("padMessage") =>
     IF NeededBytes(args.message) > args.keySizeBytes - 11
     THEN ret = Throw(ErrTooLarge)
     ELSE ret.ok

PadRejectsReached ==
  /\ Returned("padMessage")
  /\ NeededBytes(args.message) = 3
  /\ args.keySizeBytes = 13
  /\ ret = Throw(ErrTooLarge)

\* C10: unpadMessage(v, k) throws for a k-byte buffer whose first two bytes
\* are not 0x00 0x02, for one without a zero byte at an offset >= 2, and for
\* one whose first zero byte at an offset >= 2 lies before offset 10; for
\* every other buffer it returns the bytes after that first zero byte
UnpadRejectsMalformed ==
  (Returned("unpadMessage") /\ history = << >>) =>
     LET buffer == args.buffer
         k == Len(buffer)
         headerOk == k >= 2 /\ buffer[1] = 0 /\ buffer[2] = 2
         zeros == {o \in 2..(k - 1) : buffer[o + 1] = 0}
         first == CHOOSE o \in zeros : \A q \in zeros : o <= q
     IN  IF ~headerOk \/ zeros = {} \/ first < 10
         THEN ~ret.ok /\ ret.err \in {ErrPadFormat, ErrPadSeparator}
         ELSE ret = Return(Trim(SubSeq(buffer, first + 2, k)))

UnpadRejectsReached ==
  /\ Returned("unpadMessage")
  /\ history = << >>
  /\ args.buffer = <<0, 2, 255, 255, 0, 255, 255, 255, 255, 255, 255, 255, 255>>
  /\ ret = Throw(ErrPadSeparator)

(***************************************************************************)
(* encrypt and decrypt                                                     *)
(***************************************************************************)
\* Math.ceil(n.toString(2).length / 8)
keySizeBytesOf(n) == byteLength(n)

\* variant that leaves room for 10 bytes of padding overhead only
getMaxMessageSizeShortOverhead(n) == Max2(1, keySizeBytesOf(n) - 10)

getMaxMessageSize(n) == Max2(1, keySizeBytesOf(n) - 11)

\* variant with the test inverted: padded < publicKey.n
exceedsModulusInverted(padded, n) == BigLess(padded, n)

\* padded >= publicKey.n
exceedsModulus(padded, n) == ~BigLess(padded, n)

\* variant of the loop body that encrypts the chunk without padding it
encryptChunkUnpadded(chunk, publicKey, keySizeBytes, rnd) ==
  Return(bytesToBase64(
    bigIntToBytes(modPow(bytesToBigInt(chunk), publicKey.e, publicKey.n),
                  keySizeBytes)))

\* one pass of the for loop of encrypt: the Base64 text of one chunk
encryptChunk(chunk, publicKey, keySizeBytes, rnd) ==
  LET padded == padMessage(bytesToBigInt(chunk), keySizeBytes, rnd)
  IN  IF ~padded.ok THEN padded
      ELSE IF exceedsModulus(padded.val, publicKey.n) THEN Throw(ErrExceeds)
      ELSE Return(bytesToBase64(
             bigIntToBytes(modPow(padded.val, publicKey.e, publicKey.n),
                           keySizeBytes)))

\* the for loop of encrypt from byte offset i on
RECURSIVE encryptFrom(_, _, _, _, _, _)
encryptFrom(messageBytes, i, maxChunkSize, publicKey, rnd, chunks) ==
  IF i < Len(messageBytes)
  THEN LET c == encryptChunk(Slice(messageBytes, i, i + maxChunkSize), publicKey,
                             keySizeBytesOf(publicKey.n), rnd)
       IN  IF ~c.ok THEN c
           ELSE encryptFrom(messageBytes, i + maxChunkSize, maxChunkSize,
                            publicKey, rnd, Append(chunks, c.val))
  ELSE Return(Join(chunks))

\* variant of encrypt without the test for the empty message
encryptUnguarded(message, publicKey, rnd) ==
  encryptFrom(TextEncode(message), 0, getMaxMessageSize(publicKey.n),
              publicKey, rnd, << >>)

encrypt(message, publicKey, rnd) ==
  IF message = << >> THEN Throw(ErrEmptyMessage)
  ELSE encryptFrom(TextEncode(message), 0, getMaxMessageSize(publicKey.n),
                   publicKey, rnd, << >>)

\* variant that keeps the first keySizeBytes bytes of a long array
fitToKeySizeKeepFirst(encryptedBytes, keySizeBytes) ==
  IF Len(encryptedBytes) < keySizeBytes
  THEN [i \in 1..(keySizeBytes - Len(encryptedBytes)) |-> 0] \o encryptedBytes
  ELSE SubSeq(encryptedBytes, 1, keySizeBytes)

\* exactly keySizeBytes bytes: zeros in front of a short array, the last
\* keySizeBytes bytes of a long one
fitToKeySize(encryptedBytes, keySizeBytes) ==
  IF Len(encryptedBytes) < keySizeBytes
  THEN [i \in 1..(keySizeBytes - Len(encryptedBytes)) |-> 0] \o encryptedBytes
  ELSE IF Len(encryptedBytes) > keySizeBytes
  THEN SubSeq(encryptedBytes, Len(encryptedBytes) - keySizeBytes + 1,
              Len(encryptedBytes))
  ELSE encryptedBytes

\* the text of a decrypted message integer
textOf(messageBigInt) ==
  TextDecode(bigIntToBytes(messageBigInt, byteLength(messageBigInt)))

\* one pass of the for loop of decrypt: the text of one chunk
decryptChunk(chunk, privateKey, keySizeBytes) ==
  LET decoded == base64ToBytes(chunk)
  IN  IF ~decoded.ok THEN decoded
      ELSE LET encrypted == bytesToBigInt(fitToKeySize(decoded.val, keySizeBytes))
               padded == modPow(encrypted, privateKey.d, privateKey.n)
               messageBigInt == unpadMessage(padded, keySizeBytes)
           IN  IF ~messageBigInt.ok THEN messageBigInt
               ELSE Return(textOf(messageBigInt.val))

\* the for loop of decrypt from chunk i on (1-based)
RECURSIVE decryptFrom(_, _, _, _)
decryptFrom(chunks, i, privateKey, decryptedChunks) ==
  IF i <= Len(chunks)
  THEN LET c == decryptChunk(chunks[i], privateKey, keySizeBytesOf(privateKey.n))
       IN  IF ~c.ok THEN c
           ELSE decryptFrom(chunks, i + 1, privateKey,
                            Append(decryptedChunks, c.val))
  ELSE Return(Concat(decryptedChunks))

decrypt(ciphertext, privateKey) ==
  IF ciphertext = << >> THEN Throw(ErrEmptyCiphertext)
  ELSE decryptFrom(Split(ciphertext), 1, privateKey, << >>)

(***************************************************************************)
(* encryptWithProcess and decryptWithProcess, one action per stretch of    *)
(* code that ends at an addStep call, a throw or a return.  A step keeps   *)
(* its number, name (the chunk number apart), status and value; the        *)
(* description and details texts are not kept.                             *)
(***************************************************************************)
\* text.substring(0, n) + (text.length > n ? "..." : "")
Shorten(text, n) ==
  IF Len(text) > n THEN SubSeq(text, 1, n) \o <<46, 46, 46>> ELSE text

\* variant of addStep that forgets currentStep++
addStepUncounted(l, name, chunk, status, value) ==
  LET step == [step |-> l.currentStep + 1, name |-> name, chunk |-> chunk,
               status |-> status, value |-> value]
  IN  /\ loc' = [l EXCEPT !.steps = Append(@, step)]
      /\ trace' = IF args.cb THEN Append(trace, step) ELSE trace

\* variant of addStep that marks every step completed
addStepAllCompleted(l, name, chunk, status, value) ==
  LET step == [step |-> l.currentStep + 1, name |-> name, chunk |-> chunk,
               status |-> "completed", value |-> value]
  IN  /\ loc' = [l EXCEPT !.currentStep = @ + 1, !.steps = Append(@, step)]
      /\ trace' = IF args.cb THEN Append(trace, step) ELSE trace

\* variant of addStep with one currentStep for all calls: a step is numbered
\* after the steps of the suspended call as well
addStepSharedCounter(l, name, chunk, status, value) ==
  LET others == IF Len(history) = 2 THEN history[2].loc.currentStep ELSE 0
      step == [step |-> l.currentStep + others + 1, name |-> name,
               chunk |-> chunk, status |-> status, value |-> value]
  IN  /\ loc' = [l EXCEPT !.currentStep = @ + 1, !.steps = Append(@, step)]
      /\ trace' = IF args.cb THEN Append(trace, step) ELSE trace

\* addStep on the locals l: count, record, deliver to onStep if there is one
addStep(l, name, chunk, status, value) ==
  LET step == [step |-> l.currentStep + 1, name |-> name, chunk |-> chunk,
               status |-> status, value |-> value]
  IN  /\ loc' = [l EXCEPT !.currentStep = @ + 1, !.steps = Append(@, step)]
      /\ trace' = IF args.cb THEN Append(trace, step) ELSE trace

\* throw new Error(err)
Raise(err) ==
  /\ pc' = "done"
  /\ ret' = Throw(err)
  /\ UNCHANGED <<loc, trace>>

Goto(label) == pc' = label /\ ret' = ret

\* the call that ran before becomes history
Begin(name, arguments, label, locals) ==
  /\ fn' = name
  /\ args' = arguments
  /\ pc' = label
  /\ loc' = locals
  /\ trace' = << >>
  /\ history' = IF fn = "none" THEN history
                ELSE Append(history, [fn |-> fn, args |-> args, ret |-> ret,
                                      trace |-> trace])

Running(name, label) == fn = name /\ pc = label

EncLocals ==
  [currentStep |-> 0, steps |-> << >>, maxChunkSize |-> 0, messageBytes |-> << >>,
   keySizeBytes |-> 0, chunks |-> << >>, i |-> 0, padded |-> << >>,
   encrypted |-> << >>]

\* if (!message) throw; addStep("Input Message")
EncInputMessage ==
  /\ Running("encryptWithProcess", "input")
  /\ IF args.text = << >> THEN Raise(ErrEmptyMessage)
     ELSE /\ addStep(loc, "Input Message", 0, "active",
                     Defined(Shorten(args.text, 50)))
          /\ Goto("encoding")
  /\ UNCHANGED <<fn, args, history>>

\* maxChunkSize, messageBytes, keySizeBytes; addStep("Message Encoding")
EncMessageEncoding ==
  /\ Running("encryptWithProcess", "encoding")
  /\ addStep([loc EXCEPT !.maxChunkSize = getMaxMessageSize(args.key.n),
                         !.messageBytes = TextEncode(args.text),
                         !.keySizeBytes = keySizeBytesOf(args.key.n)],
             "Message Encoding", 0, "active", Undefined)
  /\ Goto("chunking")
  /\ UNCHANGED <<fn, args, history>>

\* chunks = []; addStep("Chunking"); i = 0
EncChunking ==
  /\ Running("encryptWithProcess", "chunking")
  /\ addStep([loc EXCEPT !.chunks = << >>, !.i = 0],
             "Chunking", 0, "active", Undefined)
  /\ Goto("loop")
  /\ UNCHANGED <<fn, args, history>>

\* the loop test; in the loop addStep("Padding Chunk"), after it join,
\* addStep("Complete") and return
EncLoop ==
  /\ Running("encryptWithProcess", "loop")
  /\ IF loc.i < Len(loc.messageBytes)
     THEN /\ addStep(loc, "Padding Chunk", (loc.i \div loc.maxChunkSize) + 1,
                     "active", Undefined)
          /\ Goto("pad")
     ELSE /\ addStep(loc, "Complete", 0, "completed",
                     Defined(Shorten(Join(loc.chunks), 100)))
          /\ pc' = "done"
          /\ ret' = Return(Join(loc.chunks))
  /\ UNCHANGED <<fn, args, history>>

\* padMessage and the test against n; addStep("Encrypting Chunk")
EncPadChunk ==
  /\ Running("encryptWithProcess", "pad")
  /\ LET chunk == Slice(loc.messageBytes, loc.i, loc.i + loc.maxChunkSize)
         padded == padMessage(bytesToBigInt(chunk), loc.keySizeBytes, args.rnd)
     IN  IF ~padded.ok THEN Raise(padded.err)
         ELSE IF exceedsModulus(padded.val, args.key.n) THEN Raise(ErrExceeds)
         ELSE /\ addStep([loc EXCEPT !.padded = padded.val], "Encrypting Chunk",
                         (loc.i \div loc.maxChunkSize) + 1, "active", Undefined)
              /\ Goto("exp")
  /\ UNCHANGED <<fn, args, history>>

\* variant of EncEncryptChunk that performs modPow without delivering the
\* "Encoding Chunk" step
EncEncryptChunkUnannounced ==
  /\ Running("encryptWithProcess", "exp")
  /\ loc' = [loc EXCEPT !.encrypted = modPow(loc.padded, args.key.e, args.key.n)]
  /\ trace' = trace
  /\ Goto("push")
  /\ UNCHANGED <<fn, args, history>>

\* modPow; addStep("Encoding Chunk")
EncEncryptChunk ==
  /\ Running("encryptWithProcess", "exp")
  /\ addStep([loc EXCEPT !.encrypted = modPow(loc.padded, args.key.e, args.key.n)],
             "Encoding Chunk", (loc.i \div loc.maxChunkSize) + 1, "active",
             Undefined)
  /\ Goto("push")
  /\ UNCHANGED <<fn, args, history>>

\* chunks.push(bytesToBase64(encryptedBytes)); i += maxChunkSize
EncPushChunk ==
  /\ Running("encryptWithProcess", "push")
  /\ loc' = [loc EXCEPT
               !.chunks = Append(@, bytesToBase64(
                            bigIntToBytes(loc.encrypted, loc.keySizeBytes))),
               !.i = @ + loc.maxChunkSize]
  /\ Goto("loop")
  /\ UNCHANGED <<fn, args, trace, history>>

DecLocals ==
  [currentStep |-> 0, steps |-> << >>, chunks |-> << >>, keySizeBytes |-> 0,
   decryptedChunks |-> << >>, i |-> 0, encryptedBytes |-> << >>,
   encrypted |-> << >>, padded |-> << >>, messageBigInt |-> << >>]

\* if (!ciphertext) throw; addStep("Input Ciphertext")
DecInputCiphertext ==
  /\ Running("decryptWithProcess", "input")
  /\ IF args.text = << >> THEN Raise(ErrEmptyCiphertext)
     ELSE /\ addStep(loc, "Input Ciphertext", 0, "active",
                     Defined(Shorten(args.text, 50)))
          /\ Goto("parsing")
  /\ UNCHANGED <<fn, args, history>>

\* split(":"); addStep("Parsing Chunks"); keySizeBytes; decryptedChunks = [];
\* i = 0
DecParsingChunks ==
  /\ Running("decryptWithProcess", "parsing")
  /\ addStep([loc EXCEPT !.chunks = Split(args.text),
                         !.keySizeBytes = keySizeBytesOf(args.key.n),
                         !.decryptedChunks = << >>, !.i = 0],
             "Parsing Chunks", 0, "active", Undefined)
  /\ Goto("loop")
  /\ UNCHANGED <<fn, args, history>>

\* the loop test; in the loop base64ToBytes, the fit to keySizeBytes and
\* addStep("Decoding Chunk"), after it join, addStep("Complete") and return
DecLoop ==
  /\ Running("decryptWithProcess", "loop")
  /\ IF loc.i < Len(loc.chunks)
     THEN LET decoded == base64ToBytes(loc.chunks[loc.i + 1])
          IN  IF ~decoded.ok THEN Raise(decoded.err)
              ELSE /\ addStep([loc EXCEPT !.encryptedBytes =
                                 fitToKeySize(decoded.val, loc.keySizeBytes)],
                              "Decoding Chunk", loc.i + 1, "active", Undefined)
                   /\ Goto("toint")
     ELSE /\ addStep(loc, "Complete", 0, "completed",
                     Defined(Shorten(Concat(loc.decryptedChunks), 50)))
          /\ pc' = "done"
          /\ ret' = Return(Concat(loc.decryptedChunks))
  /\ UNCHANGED <<fn, args, history>>

\* bytesToBigInt; addStep("Decrypting Chunk")
DecChunkToBigInt ==
  /\ Running("decryptWithProcess", "toint")
  /\ addStep([loc EXCEPT !.encrypted = bytesToBigInt(loc.encryptedBytes)],
             "Decrypting Chunk", loc.i + 1, "active", Undefined)
  /\ Goto("exp")
  /\ UNCHANGED <<fn, args, history>>

\* modPow; addStep("Removing Padding Chunk")
DecDecryptChunk ==
  /\ Running("decryptWithProcess", "exp")
  /\ addStep([loc EXCEPT !.padded = modPow(loc.encrypted, args.key.d, args.key.n)],
             "Removing Padding Chunk", loc.i + 1, "active", Undefined)
  /\ Goto("unpad")
  /\ UNCHANGED <<fn, args, history>>

\* unpadMessage; addStep("Decoding Chunk") for the text decoding
DecRemovePadding ==
  /\ Running("decryptWithProcess", "unpad")
  /\ LET messageBigInt == unpadMessage(loc.padded, loc.keySizeBytes)
     IN  IF ~messageBigInt.ok THEN Raise(messageBigInt.err)
         ELSE /\ addStep([loc EXCEPT !.messageBigInt = messageBigInt.val],
                         "Decoding Chunk", loc.i + 1, "active", Undefined)
              /\ Goto("text")
  /\ UNCHANGED <<fn, args, history>>

\* decryptedChunks.push(new TextDecoder().decode(messageBytes)); i++
DecPushText ==
  /\ Running("decryptWithProcess", "text")
  /\ loc' = [loc EXCEPT !.decryptedChunks = Append(@, textOf(loc.messageBigInt)),
                        !.i = @ + 1]
  /\ Goto("loop")
  /\ UNCHANGED <<fn, args, trace, history>>

(***************************************************************************)
(* the calls: a message goes through encryptWithProcess, encrypt,          *)
(* decryptWithProcess and decrypt in turn, a ciphertext that is not the    *)
(* output of encrypt through the last two                                  *)
(***************************************************************************)
MaxMsgLen == 2

\* U+0000, "A" and a character of two UTF-8 bytes
Alphabet == {0, 65, 233}

Messages == UNION {[1..l -> Alphabet] : l \in 0..MaxMsgLen}

\* key pairs as generateKeyPair builds them, from primes of 46 and 47 bits
\* (45 and 50) where it takes 1024: moduli of 12 and 13 bytes
Key12 ==
  [n |-> <<8, 250, 74, 16, 188, 245, 14, 194, 214, 26, 136, 133>>,
   e |-> <<1, 0, 1>>,
   d |-> <<1, 201, 21, 117, 226, 190, 159, 6, 32, 246, 59, 185>>,
   p |-> <<44, 208, 77, 194, 166, 39>>,
   q |-> <<51, 73, 18, 35, 19, 115>>]

Key13 ==
  [n |-> <<1, 153, 197, 22, 61, 99, 177, 74, 48, 216, 223, 150, 167>>,
   e |-> <<1, 0, 1>>,
   d |-> <<1, 111, 128, 196, 46, 112, 173, 70, 72, 166, 189, 104, 193>>,
   p |-> <<215, 238, 224, 9, 2, 199>>,
   q |-> <<1, 229, 205, 186, 188, 237, 33>>]

\* a key pair of teaching size: p = 13, q = 17, n = 221, e = 5, d = 77
KeySmall ==
  [n |-> <<221>>, e |-> <<5>>, d |-> <<77>>, p |-> <<13>>, q |-> <<17>>]

Keys == {Key12, Key13, KeySmall}

\* a key pair with a modulus of 11 bytes, the largest that leaves no room
\* for a chunk, from primes of 42 and 43 bits
Key11 ==
  [n |-> <<8, 0, 0, 30, 229, 66, 2, 215, 145, 147, 69>>,
   e |-> <<1, 0, 1>>,
   d |-> <<6, 49, 97, 230, 136, 212, 44, 235, 1, 193, 125>>,
   p |-> <<2, 0, 0, 0, 48, 71>>,
   q |-> <<4, 0, 0, 15, 18, 19>>]

\* the keys messages are encrypted with
EncryptKeys == Keys \cup {Key11}

publicKey(key) == [n |-> key.n, e |-> key.e]
privateKey(key) == [n |-> key.n, d |-> key.d]

\* what the random sources deliver for the padding of a run
RunRandomSources == {[raw |-> <<0, 255>>, regen |-> 1]}

\* "", "!", "A", "AAAA", "AQ==:" and "AQI=" (the bytes 01 02)
OtherCiphertexts ==
  {<< >>, <<33>>, <<65>>, <<65, 65, 65, 65>>, <<65, 81, 61, 61, 58>>,
   <<65, 81, 73, 61>>}

\* the characters next to the modulus of KeySmall: codes 220 and 221
TeachingMessages == {<<220>>, <<221>>}

\* the messages a key is tried with
MessagesFor(key) ==
  IF key = KeySmall THEN Messages \cup TeachingMessages ELSE Messages

CallEncryptWithProcess ==
  /\ pc = "idle"
  /\ \E key \in EncryptKeys, rnd \in RunRandomSources, cb \in BOOLEAN :
       \E message \in MessagesFor(key) :
          Begin("encryptWithProcess",
                [text |-> message, key |-> publicKey(key), rnd |-> rnd,
                 cb |-> cb],
                "input", EncLocals)
  /\ ret' = Pending

\* encrypt with the arguments encryptWithProcess just had
CallEncrypt ==
  /\ Returned("encryptWithProcess")
  /\ Begin("encrypt", args, "done", NoArgs)
  /\ ret' = encrypt(args.text, args.key, args.rnd)

\* the key pair a public key belongs to
KeyPairOf(key) == CHOOSE pair \in Keys : pair.n = key.n

\* decryptWithProcess on the ciphertext encrypt just returned, with the
\* private key of the pair
CallDecryptWithProcess ==
  /\ Returned("encrypt")
  /\ ret.ok
  /\ Begin("decryptWithProcess",
           [text |-> ret.val, key |-> privateKey(KeyPairOf(args.key)),
            rnd |-> args.rnd, cb |-> args.cb],
           "input", DecLocals)
  /\ ret' = Pending

\* decryptWithProcess on another ciphertext
CallDecryptOther ==
  /\ pc = "idle"
  /\ \E ciphertext \in OtherCiphertexts, key \in Keys, rnd \in RunRandomSources,
        cb \in BOOLEAN :
       Begin("decryptWithProcess",
             [text |-> ciphertext, key |-> privateKey(key), rnd |-> rnd,
              cb |-> cb],
             "input", DecLocals)
  /\ ret' = Pending

\* decrypt with the arguments decryptWithProcess just had
CallDecrypt ==
  /\ Returned("decryptWithProcess")
  /\ Begin("decrypt", args, "done", NoArgs)
  /\ ret' = decrypt(args.text, args.key)

NextRun ==
  \/ CallEncryptWithProcess
  \/ EncInputMessage
  \/ EncMessageEncoding
  \/ EncChunking
  \/ EncLoop
  \/ EncPadChunk
  \/ EncEncryptChunk
  \/ EncPushChunk
  \/ CallEncrypt
  \/ CallDecryptWithProcess
  \/ CallDecryptOther
  \/ DecInputCiphertext
  \/ DecParsingChunks
  \/ DecLoop
  \/ DecChunkToBigInt
  \/ DecDecryptChunk
  \/ DecRemovePadding
  \/ DecPushText
  \/ CallDecrypt

SpecRun == Init /\ [][NextRun]_vars

(***************************************************************************)
(* properties of the runs                                                  *)
(***************************************************************************)
Instrumented == {"encryptWithProcess", "decryptWithProcess"}

\* n = p * q and e * d = 1 mod (p - 1)(q - 1)
ValidKeyPair(pair) ==
  /\ BigMul(pair.p, pair.q) = pair.n
  /\ BigMod(BigMul(pair.e, pair.d),
            BigMul(BigSub(pair.p, <<1>>), BigSub(pair.q, <<1>>))) = <<1>>

\* the call completed just before the current one
Previous == history[Len(history)]

\* decrypt has returned from the ciphertext that encrypt returned for a
\* message, under a valid key pair with a modulus of 12 bytes or more
DecryptedEncrypted ==
  /\ Returned("decrypt")
  /\ Len(history) = 3
  /\ history[2].fn = "encrypt"
  /\ history[2].ret = Return(args.text)
  /\ history[2].args.key = publicKey(KeyPairOf(args.key))
  /\ ValidKeyPair(KeyPairOf(args.key))
  /\ keySizeBytesOf(args.key.n) >= 12

\* C1: decrypt(encrypt(m, publicKey), privateKey) = m for every valid key
\* pair with a modulus of at least 12 bytes, every non-empty message m and
\* every choice of random padding bytes, messages with U+0000 and with
\* multi-byte characters across a chunk boundary included
RoundTrip ==
  DecryptedEncrypted => ret = Return(history[2].args.text)

\* C6: a call of encryptWithProcess or decryptWithProcess with a callback
\* delivers steps numbered 1, 2, ..., N in this order, and when it returns
\* normally the last step delivered has status completed
TraceComplete ==
  /\ (fn \in Instrumented /\ args.cb) =>
        \A i \in 1..Len(trace) : trace[i].step = i
  /\ (pc = "done" /\ fn \in Instrumented /\ args.cb /\ ret.ok) =>
        /\ trace # << >>
        /\ trace[Len(trace)].status = "completed"

TraceCompleteReached ==
  /\ Returned("decryptWithProcess")
  /\ args.cb
  /\ ret.ok
  /\ Len(trace) = 11

\* C7: for the same input, key and random padding bytes encryptWithProcess
\* ends as encrypt does and decryptWithProcess as decrypt does: the same
\* value returned or the same error thrown, with and without a callback
SameAsUninstrumented ==
  /\ Returned("encrypt") =>
        /\ Previous.fn = "encryptWithProcess"
        /\ Previous.args = args
        /\ Previous.ret = ret
  /\ Returned("decrypt") =>
        /\ Previous.fn = "decryptWithProcess"
        /\ Previous.args = args
        /\ Previous.ret = ret

SameAsUninstrumentedReached ==
  /\ Returned("decrypt")
  /\ Len(history) = 3
  /\ ~args.cb
  /\ ret.ok
  /\ Len(ret.val) = 2
  /\ Previous.ret = ret

\* C8: encrypt and encryptWithProcess throw "Message cannot be empty" for the
\* empty string, decrypt and decryptWithProcess "Ciphertext cannot be empty";
\* nothing is returned
EmptyInputRejected ==
  (pc = "done" /\ fn \in Instrumented \cup {"encrypt", "decrypt"}
     /\ args.text = << >>) =>
     ret = Throw(IF fn \in {"encrypt", "encryptWithProcess"}
                 THEN ErrEmptyMessage ELSE ErrEmptyCiphertext)

EmptyInputRejectedReached ==
  /\ Returned("encrypt")
  /\ args.text = << >>
  /\ ret = Throw(ErrEmptyMessage)

\* the bytes a Base64 chunk of a ciphertext stands for
ChunkBytes(chunk) == base64ToBytes(chunk).val

\* the slice of the message bytes that chunk number c (from 1) encrypts
MessageSlice(text, n, c) ==
  Slice(TextEncode(text), (c - 1) * (keySizeBytesOf(n) - 11),
        c * (keySizeBytesOf(n) - 11))

\* C11: for a modulus of k >= 12 bytes and a message of L >= 1 UTF-8 bytes
\* encrypt returns ceil(L / (k - 11)) chunks joined by ":", each the Base64
\* text of exactly k bytes that encode big-endian an integer c < n; the chunks
\* are in the order of the message bytes they encrypt (decrypting chunk
\* number c with the private key of the pair gives the integer of the c-th
\* slice of the message bytes)
CiphertextShape ==
  /\ (Returned("encrypt") /\ keySizeBytesOf(args.key.n) >= 12
        /\ args.text # << >>) =>
        LET k == keySizeBytesOf(args.key.n)
            L == Len(TextEncode(args.text))
            chunks == Split(ret.val)
        IN  /\ ret.ok
            /\ Len(chunks) = (L + (k - 11) - 1) \div (k - 11)
            /\ \A c \in 1..Len(chunks) :
                 /\ base64ToBytes(chunks[c]).ok
                 /\ bytesToBase64(ChunkBytes(chunks[c])) = chunks[c]
                 /\ Len(ChunkBytes(chunks[c])) = k
                 /\ BigLess(bytesToBigInt(ChunkBytes(chunks[c])), args.key.n)
  /\ (Running("decryptWithProcess", "text") /\ Len(history) = 2
        /\ history[2].fn = "encrypt" /\ history[2].ret = Return(args.text)
        /\ ValidKeyPair(KeyPairOf(args.key))
        /\ keySizeBytesOf(args.key.n) >= 12) =>
        loc.messageBigInt =
          bytesToBigInt(MessageSlice(history[2].args.text, args.key.n, loc.i + 1))

CiphertextShapeReached ==
  /\ Running("decryptWithProcess", "text")
  /\ Len(history) = 2
  /\ history[2].fn = "encrypt"
  /\ history[2].args.text = <<65, 233>>
  /\ Len(Split(history[2].ret.val)) = 3
  /\ keySizeBytesOf(args.key.n) = 12
  /\ loc.i = 2
  /\ loc.messageBigInt = <<169>>

\* a public key of teaching size: a modulus of one byte
TeachingKey(key) == keySizeBytesOf(key.n) = 1

\* C12: with a teaching-size public key, encrypting a message with a
\* character whose code is >= n throws, and encrypting a message whose
\* characters all have a code < n succeeds; with n = 221 code 221 fails and
\* code 220 succeeds
TeachingCharacterBound ==
  (pc = "done" /\ fn \in {"encrypt", "encryptWithProcess"}
     /\ TeachingKey(args.key) /\ args.text # << >>) =>
     IF \E i \in 1..Len(args.text) : ~BigLess(FromInt(args.text[i]), args.key.n)
     THEN ~ret.ok
     ELSE ret.ok

(***************************************************************************)
(* properties of key generation                                            *)
(***************************************************************************)
Coprime(x, n) == \A d \in 2..x : ~(Divides(d, x) /\ Divides(d, n))

\* Euler's totient of n
Totient(n) == Cardinality({x \in 1..n : Coprime(x, n)})

\* C13: every key pair generateKeyPair returns has publicKey.n =
\* privateKey.n = p * q for the two primes generated, and (e * d) mod
\* phi(n) = 1 with phi Euler's totient, also when both draws return the same
\* prime
KeyPairInvariant ==
  (Returned("generateKeyPair") /\ ret.ok /\ IsPrime(loc.p) /\ IsPrime(loc.q)) =>
     /\ ret.val.publicKey.n = loc.p * loc.q
     /\ ret.val.privateKey.n = loc.p * loc.q
     /\ (ret.val.publicKey.e * ret.val.privateKey.d)
           % Totient(ret.val.publicKey.n) = 1

(***************************************************************************)
(* properties of key export and import                                     *)
(***************************************************************************)
\* the text has an n field: "n:" in a line that is not a frame line
HasModulusField(pemString) ==
  LET lines == splitLines(pemString)
  IN  \E l \in 1..Len(lines) :
        /\ keepLine(lines[l])
        /\ \E i \in 1..(Len(lines[l]) - 1) :
             lines[l][i] = 110 /\ lines[l][i + 1] = Colon

\* C14: parseKeyPEM(formatKeyPEM(key, false)) returns the n and e of every
\* public key, parseKeyPEM(formatKeyPEM(key, true)) the n and d of every
\* private key; parseKeyPEM throws "Invalid PEM format: missing n" when the
\* text has no n field
PemRoundTrip ==
  /\ (Returned("parseKeyPEM") /\ history # << >>) =>
        /\ ret.ok
        /\ ret.val.n = history[1].args.key.n
        /\ history[1].args.isPrivate => ret.val.d = history[1].args.key.d
        /\ ~history[1].args.isPrivate => ret.val.e = history[1].args.key.e
  /\ (Returned("parseKeyPEM") /\ ~HasModulusField(args.pemString)) =>
        ret = Throw(ErrMissingN)

(***************************************************************************)
(* a ciphertext decrypted with the private key of another key pair         *)
(***************************************************************************)
\* what the random sources deliver for the padding of these runs
CrossRandomSources ==
  {[raw |-> <<0, 16, 23>>, regen |-> 255], [raw |-> <<0, 255>>, regen |-> 1]}

CallEncryptAlone ==
  /\ pc = "idle"
  /\ \E message \in Messages, key \in Keys, rnd \in CrossRandomSources :
       /\ Begin("encrypt",
                [text |-> message, key |-> publicKey(key), rnd |-> rnd,
                 cb |-> FALSE],
                "done", NoArgs)
       /\ ret' = encrypt(args'.text, args'.key, args'.rnd)

\* decrypt on the ciphertext encrypt just returned, with the private key of
\* a pair whose modulus has another byte length
CallDecryptOtherKey ==
  /\ Returned("encrypt")
  /\ ret.ok
  /\ \E key \in Keys :
       /\ keySizeBytesOf(key.n) # keySizeBytesOf(args.key.n)
       /\ Begin("decrypt",
                [text |-> ret.val, key |-> privateKey(key), rnd |-> args.rnd,
                 cb |-> FALSE],
                "done", NoArgs)
       /\ ret' = decrypt(args'.text, args'.key)

NextCross ==
  \/ CallEncryptAlone
  \/ CallDecryptOtherKey

SpecCross == Init /\ [][NextCross]_vars

\* C15: decrypt throws for every ciphertext that encrypt produced under a
\* key of modulus byte length k1 when it is given a private key of modulus
\* byte length k2 # k1; it never returns a string
WrongSizeFailsCleanly ==
  (Returned("decrypt") /\ Len(history) = 1 /\ history[1].fn = "encrypt"
     /\ history[1].ret = Return(args.text)
     /\ keySizeBytesOf(args.key.n) # keySizeBytesOf(history[1].args.key.n)) =>
     ~ret.ok


(***************************************************************************)
(* the order of the steps and of the computations they name                *)
(***************************************************************************)
\* the step whose computation the code of encryptWithProcess performs next,
\* by position: padMessage, modPow, bigIntToBytes with bytesToBase64
EncAhead ==
  [pad |-> "Padding Chunk", exp |-> "Encrypting Chunk", push |-> "Encoding Chunk"]

\* the same for decryptWithProcess: modPow, unpadMessage, bigIntToBytes with
\* TextDecoder.decode
DecAhead ==
  [exp |-> "Decrypting Chunk", unpad |-> "Removing Padding Chunk",
   text |-> "Decoding Chunk"]

\* the step the callback received last
LastStep == trace[Len(trace)]

\* the number of the chunk the loop is at
EncChunkNumber == (loc.i \div loc.maxChunkSize) + 1
DecChunkNumber == loc.i + 1

\* the callback received the steps numbered 1, 2, 3, ... in this order
StepNumbersIncrease == \A j \in 1..Len(trace) : trace[j].step = j

\* a call with a callback is about to perform a computation a step names
EncComputing ==
  fn = "encryptWithProcess" /\ pc \in DOMAIN EncAhead /\ args.cb

DecComputing ==
  fn = "decryptWithProcess" /\ pc \in DOMAIN DecAhead /\ args.cb

\* C16 as stated: steps are delivered in increasing step-number order, and
\* the step delivered last never names a computation that the code has yet to
\* perform (padding, modular exponentiation, Base64 encoding, unpadding,
\* text decoding of the chunk)
StepsFollowComputation ==
  /\ StepNumbersIncrease
  /\ EncComputing => LastStep.name # EncAhead[pc]
  /\ DecComputing => LastStep.name # DecAhead[pc]

\* C16 amended: steps are delivered in increasing step-number order; the
\* step that names the padding, the modular exponentiation, the Base64
\* encoding, the unpadding or the text decoding of a chunk is the last one
\* delivered when that computation starts, so it is delivered before the
\* computation; only the Base64 "Decoding Chunk" step of decryptWithProcess
\* is delivered after its computation: when it is the last one delivered,
\* encryptedBytes already holds the decoded chunk fitted to the key size
StepsAnnounceComputation ==
  /\ StepNumbersIncrease
  /\ EncComputing =>
       LastStep.name = EncAhead[pc] /\ LastStep.chunk = EncChunkNumber
  /\ DecComputing =>
       LastStep.name = DecAhead[pc] /\ LastStep.chunk = DecChunkNumber
  /\ (Running("decryptWithProcess", "toint") /\ args.cb) =>
       /\ LastStep.name = "Decoding Chunk"
       /\ LastStep.chunk = DecChunkNumber
       /\ loc.encryptedBytes =
            fitToKeySize(base64ToBytes(loc.chunks[DecChunkNumber]).val,
                         loc.keySizeBytes)

\* the text decoding of the second chunk is about to start, its step delivered
SecondChunkAnnounced ==
  /\ Running("decryptWithProcess", "text")
  /\ args.cb
  /\ loc.i = 1
  /\ Len(trace) = 10


(***************************************************************************)
(* the one-sided error of the primality test                               *)
(***************************************************************************)
\* C17: for every prime n and every sequence of witnesses drawn,
\* isProbablyPrime(n, k) returns true: no witness the loop can draw fails a
\* round for a prime n, and the call returns true; so whenever it returns
\* false, n is composite or n < 2
MillerRabinOneSided ==
  /\ (fn = "isProbablyPrime" /\ pc = "witness" /\ IsPrime(args.n)) =>
        \A a \in randomBigInt(2, args.n - 2) :
           ~roundFails(a, loc.d, loc.r, args.n)
  /\ (Returned("isProbablyPrime") /\ IsPrime(args.n)) => ret = Return(TRUE)
  /\ (Returned("isProbablyPrime") /\ ret = Return(FALSE)) =>
        (args.n < 2 \/ \E d \in 2..(args.n - 1) : Divides(d, args.n))

\* the prime 17 (16 = 1 * 2^4, three squarings in a round) passed ten rounds
PrimePassedAllRounds ==
  /\ Returned("isProbablyPrime")
  /\ args.n = 17
  /\ loc.r = 4
  /\ loc.i = DefaultWitnesses
  /\ ret = Return(TRUE)


(***************************************************************************)
(* the range of the modular inverse                                        *)
(***************************************************************************)
\* C18: whenever modInverse(a, m) returns (a >= 0, m >= 1), the returned
\* value x satisfies 0 <= x < m
ModInverseInRange ==
  (Returned("modInverse") /\ ret.ok) => ret.val \in 0..(args.m - 1)


(***************************************************************************)
(* the layout of the padded block                                          *)
(***************************************************************************)
\* C19: whenever padMessage(m, k) returns, the result read as k big-endian
\* bytes is 0x00, 0x02, then k - mLen - 3 bytes that are all non-zero, then
\* 0x00, then the mLen message bytes (mLen the byte length of m, 1 for 0);
\* so the first zero byte at offset >= 2 is the separator
PaddedBlockLayout ==
  (Returned("padMessage") /\ ret.ok) =>
     LET k == args.keySizeBytes
         mLen == NeededBytes(args.message)
         bytes == bigIntToBytes(ret.val, k)
     IN  /\ At(bytes, 0) = 0
         /\ At(bytes, 1) = 2
         /\ \A i \in 2..(k - mLen - 2) : At(bytes, i) \in 1..255
         /\ At(bytes, k - mLen - 1) = 0
         /\ Slice(bytes, k - mLen, k) = bigIntToBytes(args.message, mLen)
         /\ separatorFrom(bytes, 2) = k - mLen - 1

\* the message 0 padded to 12 bytes from random bytes that are all zero
PaddedZeroReached ==
  /\ Returned("padMessage")
  /\ args = [message |-> << >>, keySizeBytes |-> 12,
             rnd |-> [raw |-> <<0>>, regen |-> 255]]
  /\ ret = Return(<<2, 255, 255, 255, 255, 255, 255, 255, 255, 0, 0>>)


(***************************************************************************)
(* the test of the padded value against the modulus                        *)
(***************************************************************************)
\* what padMessage returns for chunk number c of the message of the call
PaddedChunk(c) ==
  LET size == getMaxMessageSize(args.key.n)
      chunk == Slice(TextEncode(args.text), (c - 1) * size, c * size)
  IN  padMessage(bytesToBigInt(chunk), keySizeBytesOf(args.key.n), args.rnd)

\* the chunks of the message of the call, by number
ChunkNumbers ==
  LET L == Len(TextEncode(args.text))
      size == getMaxMessageSize(args.key.n)
  IN  1..((L + size - 1) \div size)

\* C20: encrypt and encryptWithProcess never call modPow with a padded value
\* >= n: the padded integer is below publicKey.n when encryptWithProcess is
\* about to exponentiate it; a call that returns a ciphertext had every
\* chunk's padded integer below n; and a call throws "Padded message exceeds
\* key modulus" only for a chunk whose padded integer is not below n
PaddedBelowModulus ==
  /\ Running("encryptWithProcess", "exp") => BigLess(loc.padded, args.key.n)
  /\ ((Returned("encryptWithProcess") \/ Returned("encrypt")) /\ ret.ok) =>
        \A c \in ChunkNumbers :
           PaddedChunk(c).ok /\ BigLess(PaddedChunk(c).val, args.key.n)
  /\ ((Returned("encryptWithProcess") \/ Returned("encrypt"))
        /\ ret = Throw(ErrExceeds)) =>
        \E c \in ChunkNumbers :
           PaddedChunk(c).ok /\ ~BigLess(PaddedChunk(c).val, args.key.n)

\* the second chunk of a message under the 13-byte modulus is about to be
\* exponentiated
SecondChunkBelowModulus ==
  /\ Running("encryptWithProcess", "exp")
  /\ args.key.n = Key13.n
  /\ loc.i = 2
  /\ loc.padded = PaddedChunk(2).val
  /\ BigLess(loc.padded, args.key.n)


(***************************************************************************)
(* the fit of a decoded chunk to the key size                              *)
(***************************************************************************)
\* the bytes base64ToBytes gave for the chunk the loop of decryptWithProcess
\* is at
DecodedChunk == base64ToBytes(loc.chunks[DecChunkNumber]).val

\* the chunk was decoded and fitted, nothing else was done with it yet
ChunkFitted == Running("decryptWithProcess", "toint")

\* the part of C21 that holds of chunks of at most k bytes: k bytes, zeros in
\* front, the same integer
ShortChunkFit ==
  /\ Len(loc.encryptedBytes) = loc.keySizeBytes
  /\ Len(DecodedChunk) <= loc.keySizeBytes =>
       /\ loc.encryptedBytes =
            [i \in 1..(loc.keySizeBytes - Len(DecodedChunk)) |-> 0]
              \o DecodedChunk
       /\ bytesToBigInt(loc.encryptedBytes) = bytesToBigInt(DecodedChunk)

\* C21 as stated: decrypt works on exactly k bytes; a decoded chunk shorter
\* than k bytes is left-zero-padded, which preserves its integer value, and
\* a decoded chunk longer than k bytes is right-truncated: its first k bytes
\* are kept, its trailing bytes dropped
ChunkFitAsClaimed ==
  ChunkFitted =>
     /\ ShortChunkFit
     /\ Len(DecodedChunk) > loc.keySizeBytes =>
          loc.encryptedBytes = SubSeq(DecodedChunk, 1, loc.keySizeBytes)

\* C21 amended: decrypt works on exactly k bytes; a decoded chunk shorter
\* than k bytes is left-zero-padded, which preserves its integer value, and
\* of a decoded chunk longer than k bytes the last k bytes are kept: its
\* leading bytes are dropped
ChunkFitAmended ==
  ChunkFitted =>
     /\ ShortChunkFit
     /\ Len(DecodedChunk) > loc.keySizeBytes =>
          loc.encryptedBytes =
            SubSeq(DecodedChunk, Len(DecodedChunk) - loc.keySizeBytes + 1,
                   Len(DecodedChunk))

\* the chunk "AQI=" (bytes 01 02) fitted to the one byte of the modulus 221
LongChunkFitted ==
  /\ ChunkFitted
  /\ args.key.n = <<221>>
  /\ DecodedChunk = <<1, 2>>
  /\ loc.encryptedBytes = <<2>>


(***************************************************************************)
(* The prime search, draw by draw: randomBigInt with its do-while loop,    *)
(* generateLargePrime with its while (true) loop and the witness loop of   *)
(* isProbablyPrime inside it.  loc holds the locals of the three           *)
(* functions; loc.back says which call of randomBigInt is running.         *)
(***************************************************************************)
\* largest argument of a direct call of randomBigInt
MaxRandomArg == 5
\* largest bit length asked of generateLargePrime
MaxCandidateBits == 4

\* one byte of crypto.getRandomValues
ByteValues == 0..255

\* x.toString(2).length, the minus sign of a negative x included
RECURSIVE binaryLength(_)
binaryLength(x) ==
  IF x < 0 THEN 1 + binaryLength(-x)
  ELSE IF x < 2 THEN 1 ELSE 1 + binaryLength(x \div 2)

\* Math.ceil(bits / 8)
randomByteCount(bits) == (bits + 7) \div 8

\* BigInt("0x" + the bytes in hexadecimal, two digits each)
RECURSIVE fromHex(_)
fromHex(randomBytes) ==
  IF randomBytes = << >> THEN 0
  ELSE fromHex(SubSeq(randomBytes, 1, Len(randomBytes) - 1)) * 256
         + randomBytes[Len(randomBytes)]

\* variant of the loop condition that lets range + 1 through
redrawAboveNext(result, range) == result > range + 1

\* while (result > range)
redraw(result, range) == result > range

\* variant of the first exit of isProbablyPrime that knows 2 only
smallPrimeOnlyTwo(n) == n = 2

\* n === 2n || n === 3n
smallPrime(n) == n = 2 \/ n = 3

\* n % 2n === 0n || n < 2n
evenOrSmall(n) == n % 2 = 0 \/ n < 2

\* variant of the low bit that adds one to every candidate
oddCandidateNext(candidate) == candidate + 1

\* candidate | 1n, as generateLargePrime takes it
lowBitSet(candidate) == oddCandidate(candidate)

PrimeLocals ==
  [min |-> 0, max |-> 0, range |-> 0, bits |-> 1, result |-> 0,
   back |-> "return", oddCandidate |-> 0, d |-> 0, r |-> 0, i |-> 0]

\* the locals at the entry of randomBigInt(min, max), called from back
enterRandomBigInt(locals, min, max, back) ==
  [locals EXCEPT !.min = min, !.max = max, !.range = max - min,
                 !.bits = binaryLength(max - min), !.result = 0,
                 !.back = back]

\* const min, const max of generateLargePrime
primeMin(bits) == twoToThe(bits - 1)
primeMax(bits) == twoToThe(bits) - 1

CallRandomBigInt ==
  /\ pc = "idle"
  /\ \E min \in 0..MaxRandomArg, max \in 0..MaxRandomArg :
       /\ min <= max
       /\ pc' = "draw"
       /\ fn' = "randomBigInt"
       /\ args' = [min |-> min, max |-> max]
       /\ loc' = enterRandomBigInt(PrimeLocals, min, max, "return")
  /\ UNCHANGED <<ret, trace, history>>

\* generateLargePrime up to its first call of randomBigInt
CallGenerateLargePrime ==
  /\ pc = "idle"
  /\ \E bits \in 1..MaxCandidateBits :
       /\ pc' = "draw"
       /\ fn' = "generateLargePrime"
       /\ args' = [bits |-> bits]
       /\ loc' = enterRandomBigInt(PrimeLocals, primeMin(bits), primeMax(bits),
                                   "candidate")
  /\ UNCHANGED <<ret, trace, history>>

\* the body of the do-while loop with the bytes the random source gives
DrawBytes(randomBytes) ==
  /\ pc = "draw"
  /\ pc' = "drawn"
  /\ loc' = [loc EXCEPT !.result = fromHex(randomBytes)]
  /\ UNCHANGED <<fn, args, ret, trace, history>>

Draw ==
  /\ pc = "draw"
  /\ \E randomBytes \in [1..randomByteCount(loc.bits) -> ByteValues] :
       DrawBytes(randomBytes)

\* the loop condition holds: draw again.  The next pass assigns result
\* before anything reads it, so the rejected value is not kept
Redraw ==
  /\ pc = "drawn"
  /\ redraw(loc.result, loc.range)
  /\ pc' = "draw"
  /\ loc' = [loc EXCEPT !.result = 0]
  /\ UNCHANGED <<fn, args, ret, trace, history>>

\* the call of randomBigInt made from back leaves its loop
Leaves(back) ==
  /\ pc = "drawn"
  /\ loc.back = back
  /\ ~redraw(loc.result, loc.range)

\* return result + min, to the caller of a direct call
ReturnRandom ==
  /\ Leaves("return")
  /\ pc' = "done"
  /\ ret' = Return(loc.result + loc.min)
  /\ UNCHANGED <<fn, args, loc, trace, history>>

\* isProbablyPrime said false: the next pass of while (true)
nextCandidate(locals) ==
  enterRandomBigInt(locals, primeMin(args.bits), primeMax(args.bits),
                    "candidate")

\* the candidate is drawn: the low bit, and isProbablyPrime up to its first
\* witness
TakeCandidate ==
  /\ Leaves("candidate")
  /\ LET candidate == loc.result + loc.min
         n == lowBitSet(candidate)
         locals == [loc EXCEPT !.oddCandidate = n, !.d = 0, !.r = 0, !.i = 0]
     IN  IF smallPrime(n)
         THEN pc' = "done" /\ ret' = Return(n) /\ loc' = locals
         ELSE IF evenOrSmall(n)
         THEN pc' = "draw" /\ ret' = ret /\ loc' = nextCandidate(locals)
         ELSE /\ pc' = "draw"
              /\ ret' = ret
              /\ loc' = enterRandomBigInt(
                           [locals EXCEPT !.d = factorTwos(n - 1, 0).d,
                                          !.r = factorTwos(n - 1, 0).r],
                           2, n - 2, "witness")
  /\ UNCHANGED <<fn, args, trace, history>>

\* the rounds that end in "return false", for every odd n the search can
\* test and every witness a, computed once
failedRounds ==
  {na \in (5..primeMax(MaxCandidateBits)) \X (2..primeMax(MaxCandidateBits)) :
     /\ na[1] % 2 = 1
     /\ na[2] <= na[1]
     /\ roundFails(na[2], factorTwos(na[1] - 1, 0).d,
                   factorTwos(na[1] - 1, 0).r, na[1])}

\* the witness is drawn: the rest of the round
TakeWitness ==
  /\ Leaves("witness")
  /\ LET a == loc.result + loc.min
         n == loc.oddCandidate
     IN  IF <<n, a>> \in failedRounds
         THEN /\ pc' = "draw"
              /\ ret' = ret
              /\ loc' = nextCandidate(loc)
         ELSE IF loc.i + 1 < DefaultWitnesses
         THEN /\ pc' = "draw"
              /\ ret' = ret
              /\ loc' = enterRandomBigInt([loc EXCEPT !.i = @ + 1], 2, n - 2,
                                          "witness")
         ELSE /\ pc' = "done"
              /\ ret' = Return(n)
              /\ loc' = [loc EXCEPT !.i = @ + 1]
  /\ UNCHANGED <<fn, args, trace, history>>

NextPrime ==
  \/ CallRandomBigInt
  \/ CallGenerateLargePrime
  \/ Draw
  \/ Redraw
  \/ ReturnRandom
  \/ TakeCandidate
  \/ TakeWitness

SpecPrime == Init /\ [][NextPrime]_vars


(***************************************************************************)
(* what generateLargePrime returns                                         *)
(***************************************************************************)
\* min <= v <= max for the bit length asked
InPrimeRange(v) == primeMin(args.bits) <= v /\ v <= primeMax(args.bits)

\* C22: whenever generateLargePrime(bits) returns a value v, v is odd,
\* 2^(bits-1) <= v <= 2^bits - 1 (v has exactly bits bits), and v is the
\* candidate isProbablyPrime has just returned true for (at once for 3, after
\* all its rounds otherwise); the candidate with its low bit forced is in
\* the range whenever the candidate drawn is
GeneratedPrimeInRange ==
  /\ Leaves("candidate") =>
       /\ InPrimeRange(loc.result + loc.min)
       /\ InPrimeRange(lowBitSet(loc.result + loc.min))
       /\ lowBitSet(loc.result + loc.min) % 2 = 1
  /\ Returned("generateLargePrime") =>
       /\ ret.ok
       /\ ret.val % 2 = 1
       /\ InPrimeRange(ret.val)
       /\ binaryLength(ret.val) = args.bits
       /\ ret.val = loc.oddCandidate
       /\ smallPrime(ret.val) \/ loc.i = DefaultWitnesses
       /\ TRUE \in isProbablyPrime(ret.val, DefaultWitnesses)

\* 13 returned for 4 bits after ten rounds
ThirteenGenerated ==
  /\ Returned("generateLargePrime")
  /\ args.bits = 4
  /\ ret.val = 13
  /\ loc.i = DefaultWitnesses


(***************************************************************************)
(* what randomBigInt returns                                               *)
(***************************************************************************)
\* a draw above the range is on the table
DrawAboveRange == pc = "drawn" /\ loc.result > loc.max - loc.min

ResultInRange ==
  /\ Returned("randomBigInt") =>
       /\ ret.ok
       /\ args.min <= ret.val /\ ret.val <= args.max
       /\ ret.val = loc.result + args.min
       /\ loc.result <= args.max - args.min
       /\ ret.val \in randomBigInt(args.min, args.max)
  /\ Leaves("witness") =>
       /\ 2 <= loc.result + loc.min
       /\ loc.result + loc.min <= loc.oddCandidate - 2

\* C23: whenever randomBigInt(min, max) returns with min <= max, the result
\* r satisfies min <= r <= max; a raw draw larger than max - min is never
\* returned: the next step draws again and nothing is returned by it; the
\* witnesses isProbablyPrime takes lie in [2, n - 2]
RandomResultInRange ==
  /\ []ResultInRange
  /\ [][DrawAboveRange => pc' = "draw" /\ ret' = ret]_vars

\* randomBigInt(2, 5) returned 5, the largest draw it accepts
LargestDrawReturned ==
  /\ Returned("randomBigInt")
  /\ args.min = 2 /\ args.max = 5
  /\ loc.result = 3
  /\ ret.val = 5


(***************************************************************************)
(* The prime search under a fair random source: whenever bytes are drawn   *)
(* again and again for the same purpose, every value of the range comes    *)
(* up again and again; and the program keeps running.                      *)
(***************************************************************************)
\* the count bytes that make the value result
bytesFor(result, count) ==
  [i \in 1..count |-> (result \div Power(256, count - i)) % 256]

\* the random source gives the value result to the running call
DrawsValue(result) ==
  DrawBytes(bytesFor(result, randomByteCount(loc.bits)))

\* generateLargePrime draws a candidate that is prime once its low bit is set
DrawsPrimeCandidate ==
  /\ pc = "draw"
  /\ loc.back = "candidate"
  /\ \E result \in 0..loc.range :
       IsPrime(lowBitSet(result + loc.min)) /\ DrawsValue(result)

\* isProbablyPrime draws a witness of its range
DrawsWitness ==
  /\ pc = "draw"
  /\ loc.back = "witness"
  /\ \E result \in 0..loc.range : DrawsValue(result)

\* a kind of draw that can be made again and again is made again and again
FairSource == SF_vars(DrawsPrimeCandidate) /\ SF_vars(DrawsWitness)

FairSpecPrime == SpecPrime /\ WF_vars(NextPrime) /\ FairSource

\* generateLargePrime(bits) is running or has returned
PrimeAsked(bits) == fn = "generateLargePrime" /\ args.bits = bits

\* C29: for every bitLength >= 2, under a fair random source
\* generateLargePrime(bitLength) eventually returns, and it ends in no other
\* way than by returning a value
PrimeSearchTerminates ==
  /\ \A bits \in 2..MaxCandidateBits :
       PrimeAsked(bits) ~> Returned("generateLargePrime")
  /\ [](fn = "generateLargePrime" /\ pc = "done" => ret.ok)

\* 11 returned for 4 bits after ten rounds
ElevenFound ==
  /\ Returned("generateLargePrime")
  /\ args.bits = 4
  /\ ret.val = 11
  /\ loc.i = DefaultWitnesses


(***************************************************************************)
(* key generation when e has no inverse                                    *)
(***************************************************************************)
\* (p - 1n) * (q - 1n) of the primes drawn
PhiDrawn == (loc.p - 1) * (loc.q - 1)

\* C24: if the generated primes give gcd(65537, (p-1)(q-1)) != 1,
\* generateKeyPair throws "Modular inverse does not exist" and returns no
\* key pair; it draws no other primes: the step after the two draws ends the
\* call with the primes as they were drawn
KeyPairNeedsInverse ==
  /\ [](Returned("generateKeyPair") =>
          IF Coprime(PublicExponent, PhiDrawn)
          THEN ret.ok
          ELSE ret = Throw(ErrNoInverse))
  /\ [][Running("generateKeyPair", "primes") => pc' = "done" /\ loc' = loc]_vars

\* the call failed for p = 917519, q = 17
NoKeyPairReturned ==
  /\ Returned("generateKeyPair")
  /\ loc.p = PrimeOverExponent
  /\ loc.q = 17
  /\ ret = Throw(ErrNoInverse)


(***************************************************************************)
(* encryption under a modulus of fewer than 12 bytes                       *)
(***************************************************************************)
\* encrypt or encryptWithProcess has ended
EncryptionEnded ==
  pc = "done" /\ fn \in {"encrypt", "encryptWithProcess"}

Shifted(digit, places) == <<digit>> \o [i \in 1..places |-> 0]

\* C27: "Padded message exceeds key modulus" is never thrown: with k the
\* byte length of n, every value padMessage returns for a chunk is below
\* 3 * 256^(k-2), which is below 256^(k-1) <= n, so padded >= n is false
\* for it
ExceedsModulusUnreachable ==
  /\ EncryptionEnded =>
       /\ ret # Throw(ErrExceeds)
       /\ \A c \in ChunkNumbers :
            PaddedChunk(c).ok =>
               /\ BigLess(PaddedChunk(c).val,
                          Shifted(3, keySizeBytesOf(args.key.n) - 2))
               /\ ~exceedsModulus(PaddedChunk(c).val, args.key.n)
  /\ Running("encryptWithProcess", "exp") =>
       /\ BigLess(loc.padded, Shifted(3, loc.keySizeBytes - 2))
       /\ BigLess(Shifted(3, loc.keySizeBytes - 2),
                  Shifted(1, loc.keySizeBytes - 1))
       /\ ~BigLess(args.key.n, Shifted(1, loc.keySizeBytes - 1))

\* a chunk of the 12-byte modulus padded with 0xFF bytes passed the test
LargestPaddingPassed ==
  /\ Running("encryptWithProcess", "exp")
  /\ args.key.n = Key12.n
  /\ \E j \in 3..10 : At(bigIntToBytes(loc.padded, 12), j - 1) = 255


(***************************************************************************)
(* the statuses of the steps                                               *)
(***************************************************************************)
\* every chunk of the input of the running call has been processed
AllChunksProcessed ==
  IF fn = "encryptWithProcess"
  THEN Len(loc.chunks) = Cardinality(ChunkNumbers)
  ELSE loc.chunks = Split(args.text) /\ Len(loc.decryptedChunks) = Len(loc.chunks)

\* C28: in every run of encryptWithProcess or decryptWithProcess the steps
\* are numbered 1, 2, ... and delivered as they are recorded; a step with
\* status completed is the last step of a run that has returned, emitted
\* after every chunk was processed; every other step has status active, none
\* pending.  A run that throws has emitted no completed step: no step at all
\* when the input is empty, the active steps 1..j (j >= 1) otherwise
StatusDiscipline ==
  fn \in Instrumented =>
     /\ trace = (IF args.cb THEN loc.steps ELSE << >>)
     /\ \A i \in 1..Len(loc.steps) :
          /\ loc.steps[i].step = i
          /\ loc.steps[i].status \in {"active", "completed"}
          /\ loc.steps[i].status = "completed" =>
               /\ i = Len(loc.steps)
               /\ pc = "done" /\ ret.ok
               /\ AllChunksProcessed
     /\ (pc = "done" /\ ~ret.ok) =>
          /\ \A i \in 1..Len(loc.steps) : loc.steps[i].status = "active"
          /\ (args.text = << >>) <=> (loc.steps = << >>)

\* decryptWithProcess threw after it had delivered four active steps or more
ThrownAfterActiveSteps ==
  /\ Returned("decryptWithProcess")
  /\ args.cb
  /\ ~ret.ok
  /\ Len(trace) >= 4
  /\ \A i \in 1..Len(trace) : trace[i].status = "active"


(***************************************************************************)
(* The App component.  loc holds its state (the useState values), args the *)
(* timers handleProcess has set and not yet run, each with the values its  *)
(* closure captured, and the closure that ran last; ret and trace are what *)
(* the pipeline of the last timer returned or threw and what it delivered  *)
(* to the onStep callback.  Of a pipeline run App sees the steps, numbered *)
(* from 1 and active but for a last completed step when the run returns    *)
(* (StatusDiscipline), and the value returned or the error thrown.         *)
(***************************************************************************)
\* timers that can wait at a time
MaxTimers == 2
\* steps a pipeline run of the model delivers at most
MaxSteps == 2

\* "", " " and "A"
InputTexts == {<< >>, <<32>>, <<65>>}

\* texts a pipeline returns
ResultTexts == {<<66>>}

\* messages of the errors a pipeline throws
ErrorMessages == {ErrTooLarge, ErrPadFormat}

Modes == {"encrypt", "decrypt"}

\* inputText.trim() is empty
blank(text) == \A i \in 1..Len(text) : text[i] \in Whitespace

\* the useState initial values
AppState ==
  [keys |-> Undefined, mode |-> "encrypt", inputText |-> << >>,
   outputText |-> << >>, error |-> Undefined, isProcessing |-> FALSE,
   processSteps |-> << >>]

\* what a pipeline run can deliver and how it can end
IsRunOutcome(steps, outcome) ==
  /\ \A i \in 1..Len(steps) :
       /\ steps[i].step = i
       /\ steps[i].status =
            (IF outcome.ok /\ i = Len(steps) THEN "completed" ELSE "active")
  /\ outcome.ok => steps # << >>

RunOutcomes ==
  {run \in [steps : UNION {[1..j -> [step : 1..MaxSteps,
                                       status : {"active", "completed"}]] :
                             j \in 0..MaxSteps},
            outcome : {Return(text) : text \in ResultTexts}
                        \cup {Throw(message) : message \in ErrorMessages}] :
     IsRunOutcome(run.steps, run.outcome)}

\* variant of the updater that leaves the earlier steps as they are
stepPushedOnly(prev, step) == Append(prev, step)

\* the updater the onStep callback passes to setProcessSteps: earlier active
\* steps become completed, the new step is pushed
stepPushed(prev, step) ==
  Append([i \in 1..Len(prev) |->
            IF prev[i].status = "active"
            THEN [prev[i] EXCEPT !.status = "completed"]
            ELSE prev[i]],
         step)

\* the updaters of the steps of a run, applied in the order of the calls
RECURSIVE stepsPushed(_, _)
stepsPushed(prev, steps) ==
  IF steps = << >> THEN prev
  ELSE stepsPushed(stepPushed(prev, Head(steps)), Tail(steps))

\* `Failed to ${mode}: ${errorMessage}. Please check your input and try again.`
failureText(mode, errorMessage) ==
  <<"Failed to ", mode, ": ", errorMessage,
    ". Please check your input and try again.">>

\* the component is rendered for the first time
MountApp ==
  /\ fn = "none"
  /\ fn' = "App"
  /\ pc' = "rendered"
  /\ loc' = AppState
  /\ args' = [timers |-> << >>, ran |-> Undefined]
  /\ UNCHANGED <<ret, trace, history>>

HandleKeysGenerated ==
  /\ fn = "App"
  /\ \E newKeys \in {KeySmall, Key12} :
       loc' = [loc EXCEPT !.keys = Defined(newKeys), !.error = Undefined,
                          !.outputText = << >>]
  /\ pc' = "rendered"
  /\ UNCHANGED <<fn, args, ret, trace, history>>

\* onChange of the input and of the mode
SetInputText ==
  /\ fn = "App"
  /\ \E text \in InputTexts : loc' = [loc EXCEPT !.inputText = text]
  /\ pc' = "rendered"
  /\ UNCHANGED <<fn, args, ret, trace, history>>

SetMode ==
  /\ fn = "App"
  /\ \E mode \in Modes : loc' = [loc EXCEPT !.mode = mode]
  /\ pc' = "rendered"
  /\ UNCHANGED <<fn, args, ret, trace, history>>

\* handleProcess up to setTimeout: nothing without keys or input, else the
\* four state updates and a timer with the values of this render
HandleProcess ==
  /\ fn = "App"
  /\ Len(args.timers) < MaxTimers
  /\ pc' = "rendered"
  /\ IF loc.keys = Undefined \/ blank(loc.inputText)
     THEN UNCHANGED <<loc, args>>
     ELSE /\ loc' = [loc EXCEPT !.error = Undefined, !.isProcessing = TRUE,
                                !.outputText = << >>, !.processSteps = << >>]
          /\ args' = [args EXCEPT !.timers =
                        Append(@, [mode |-> loc.mode, inputText |-> loc.inputText,
                                   keys |-> loc.keys])]
  /\ UNCHANGED <<fn, ret, trace, history>>

\* the function given to setTimeout: the pipeline with its callback, then
\* try, catch and finally
TimerFires ==
  /\ fn = "App"
  /\ args.timers # << >>
  /\ \E run \in RunOutcomes :
       /\ trace' = run.steps
       /\ ret' = run.outcome
       /\ loc' = IF run.outcome.ok
                 THEN [loc EXCEPT !.processSteps = stepsPushed(@, run.steps),
                                  !.outputText = run.outcome.val,
                                  !.isProcessing = FALSE]
                 ELSE [loc EXCEPT !.error =
                                     Defined(failureText(Head(args.timers).mode,
                                                         run.outcome.err)),
                                  !.outputText = << >>,
                                  !.processSteps = << >>,
                                  !.isProcessing = FALSE]
  /\ args' = [timers |-> Tail(args.timers), ran |-> Defined(Head(args.timers))]
  /\ pc' = "finished"
  /\ UNCHANGED <<fn, history>>

NextApp ==
  \/ MountApp
  \/ HandleKeysGenerated
  \/ SetInputText
  \/ SetMode
  \/ HandleProcess
  \/ TimerFires

SpecApp == Init /\ [][NextApp]_vars

\* the last Len(steps) of the displayed steps
DisplayedTail(n) ==
  SubSeq(loc.processSteps, Len(loc.processSteps) - n + 1, Len(loc.processSteps))

\* C30: once the deferred work of a handleProcess run has finished,
\* isProcessing is false; if the run failed, the error message is set and
\* the output text and the displayed step list are empty; if it succeeded,
\* the output text is the pipeline result, every displayed step has status
\* completed, and the steps of the run are displayed in the order they were
\* emitted
ProcessingSettles ==
  (fn = "App" /\ pc = "finished") =>
     /\ ~loc.isProcessing
     /\ ~ret.ok =>
          /\ loc.error = Defined(failureText(args.ran[1].mode, ret.err))
          /\ loc.outputText = << >>
          /\ loc.processSteps = << >>
     /\ ret.ok =>
          /\ loc.outputText = ret.val
          /\ \A i \in 1..Len(loc.processSteps) :
               loc.processSteps[i].status = "completed"
          /\ Len(loc.processSteps) >= Len(trace)
          /\ \A i \in 1..Len(trace) : DisplayedTail(Len(trace))[i].step = i

\* a run of two steps succeeded while another timer was still waiting
RunSucceeded ==
  /\ fn = "App" /\ pc = "finished"
  /\ ret.ok
  /\ Len(trace) = 2
  /\ Len(loc.processSteps) = 2
  /\ args.timers # << >>


(***************************************************************************)
(* Two instrumented runs interleaved.  A run is first made alone, from the *)
(* start, and kept as history[1]; then the same run and a second run are   *)
(* called together.  One of the two is the current call, in fn, pc, args,  *)
(* loc, ret and trace, and moves by the steps of the pipelines; the other  *)
(* waits in history[2] with its own six values, and Switch exchanges them  *)
(* between any two steps.                                                  *)
(***************************************************************************)
\* the random source of the runs
PairSource == CHOOSE rnd \in RunRandomSources : TRUE

\* what encrypt returns for "A" under the public key of Key12
PairCiphertext == encrypt(<<65>>, publicKey(Key12), PairSource).val

\* a run that returns and a run that throws of each function
PairRuns ==
  {[fn |-> "encryptWithProcess", text |-> <<65>>, key |-> publicKey(Key12)],
   [fn |-> "encryptWithProcess", text |-> <<65>>, key |-> publicKey(KeySmall)],
   [fn |-> "decryptWithProcess", text |-> PairCiphertext,
    key |-> privateKey(Key12)],
   [fn |-> "decryptWithProcess", text |-> <<65, 81, 73, 61>>,
    key |-> privateKey(KeySmall)]}

ArgsOf(run) ==
  [text |-> run.text, key |-> run.key, rnd |-> PairSource, cb |-> TRUE]

\* const steps = []; let currentStep = 0 and the other locals of a call
LocalsOf(run) ==
  IF run.fn = "encryptWithProcess" THEN EncLocals ELSE DecLocals

\* a call at its first statement
Called(run) ==
  [fn |-> run.fn, pc |-> "input", args |-> ArgsOf(run), loc |-> LocalsOf(run),
   ret |-> Pending, trace |-> << >>]

\* the current call
Current ==
  [fn |-> fn, pc |-> pc, args |-> args, loc |-> loc, ret |-> ret,
   trace |-> trace]

\* the call that was made alone
Alone == history[1]

\* the call that waits
Waiting == history[2]

Interleaved == Len(history) = 2

\* a run alone
CallAlone ==
  /\ pc = "idle"
  /\ \E run \in PairRuns :
       Begin(run.fn, ArgsOf(run), "input", LocalsOf(run))
  /\ ret' = Pending

\* the run that was made alone and a second run, called together
CallTogether ==
  /\ pc = "done"
  /\ history = << >>
  /\ \E second \in PairRuns :
       /\ history' = <<[fn |-> fn, args |-> args, ret |-> ret, trace |-> trace],
                       Called(second)>>
       /\ fn' = fn
       /\ args' = args
       /\ pc' = "input"
       /\ loc' = LocalsOf([fn |-> fn])
       /\ ret' = Pending
       /\ trace' = << >>

\* the call that waits goes on and the current call waits
Switch ==
  /\ Interleaved
  /\ Waiting.pc # "done"
  /\ fn' = Waiting.fn
  /\ pc' = Waiting.pc
  /\ args' = Waiting.args
  /\ loc' = Waiting.loc
  /\ ret' = Waiting.ret
  /\ trace' = Waiting.trace
  /\ history' = <<Alone, Current>>

NextPair ==
  \/ CallAlone
  \/ CallTogether
  \/ Switch
  \/ EncInputMessage
  \/ EncMessageEncoding
  \/ EncChunking
  \/ EncLoop
  \/ EncPadChunk
  \/ EncEncryptChunk
  \/ EncPushChunk
  \/ DecInputCiphertext
  \/ DecParsingChunks
  \/ DecLoop
  \/ DecChunkToBigInt
  \/ DecDecryptChunk
  \/ DecRemovePadding
  \/ DecPushText

SpecPair == Init /\ [][NextPair]_vars

\* the steps of a call are its own: numbered from 1, as many as it counted,
\* and the ones its callback received
OwnSteps(call) ==
  /\ call.loc.currentStep = Len(call.loc.steps)
  /\ call.loc.steps = call.trace
  /\ \A i \in 1..Len(call.trace) : call.trace[i].step = i

\* a call that has ended after the run Alone ended as Alone did
EndsAsAlone(call) ==
  (call.pc = "done" /\ call.fn = Alone.fn /\ call.args = Alone.args) =>
     /\ call.ret = Alone.ret
     /\ call.trace = Alone.trace

\* the keys the two calls were given
KeysGiven == {<<call.fn, call.args.key>> : call \in {Current, Waiting}}

\* C25: when two instrumented runs are interleaved step by step in any
\* order, one of them possibly failing first, each run delivers the step
\* numbers 1..N and ends with the value or the error it ends with when it
\* runs alone; step counter, step list and chunk accumulators are those of
\* the call, and the keys the calls were given stay as they were
CallsIndependent ==
  /\ [](Interleaved =>
          /\ OwnSteps(Current) /\ OwnSteps(Waiting)
          /\ EndsAsAlone(Current) /\ EndsAsAlone(Waiting))
  /\ [][Interleaved => KeysGiven' = KeysGiven]_vars

\* an encryption returned after a decryption, called with it and run between
\* its steps, had thrown
ReturnedBesideFailure ==
  /\ Interleaved
  /\ Returned("encryptWithProcess")
  /\ ret.ok
  /\ Len(trace) = Len(Alone.trace)
  /\ Waiting.fn = "decryptWithProcess"
  /\ Waiting.pc = "done"
  /\ ~Waiting.ret.ok
  /\ Waiting.trace # << >>

====
